---- MODULE Spec2Model ----
(***************************************************************************)
(* Model of the second-brain-agent ingestion pipeline:                     *)
(*   transform_md.py  (markdown notes -> JSON artifacts in Text/),         *)
(*   transform_txt.py (artifacts -> chunk files in Chunk/ + vector store), *)
(*   lib.py           (ChecksumStore, is_same_time, ...).                  *)
(*                                                                         *)
(* Strings that the code parses (file names, basenames, chunk ids) are     *)
(* sequences of one-character strings, so that slicing, split() and        *)
(* formatting are computed as the code computes them.  A file is a record  *)
(* with its modification time and its content; a directory is a function   *)
(* from file names to files.  Time is only ever compared for equality and  *)
(* copied, so an instant is a stamp and a new instant is the least stamp   *)
(* that no file or record holds.                                           *)
(***************************************************************************)
EXTENDS Integers, Sequences, FiniteSets, TLC

VARIABLES
    notes,          \* the source directory: note file name -> [mtime, lines]
    markdown,       \* out_dir/Markdown: fragment file name -> [mtime, lines]
    text,           \* out_dir/Text: artifact file name -> [mtime, text, metadata]
    chunks,         \* out_dir/Chunk: chunk file name -> [mtime, text]
    index,          \* the vector store: id -> [text, metadata]
    checksums,      \* ChecksumStore.checksums of the running markdown stage
    checksum_file,  \* out_dir/checksums.json
    pc,             \* "idle", "md" (transform_md.main loop), "txt" (transform_txt.main loop)
    mode,           \* "scan" (directory) or "stream" (file names on stdin) of the current run
    queue,          \* stream mode: the file names the current run has still to handle
    log,            \* the effects of the most recent handler call, in order
    ret,            \* the value returned by the most recent call
    todo,           \* scan mode: the directory entries the current run has still to handle
    pending,        \* the notes the current run is given
    since,          \* what has completed since the directory last changed
    gone,           \* per note: how far the pipeline got since the note was removed
    cascaded,       \* notes whose cascading delete has run since they were removed
    edits,          \* how many times the user has written or removed a note
    agent,          \* lib.Agent: its chain's retriever and what the last call did
    vs,             \* lib.get_vectorstore: where the current call is, and its counters
    lib,            \* the last direct call of a function of lib.py: arguments and result
    stopped         \* notes not written since an exception left process_md_file
                    \* after has_file_changed, and not processed since

vars == <<notes, markdown, text, chunks, index, checksums, checksum_file,
          pc, mode, queue, todo, pending, log, ret, since, gone, cascaded, edits,
          agent, vs, lib, stopped>>

-----------------------------------------------------------------------------
(* Bounds of the model *)

\* longest list of file names given on stdin
MaxStream == 1
\* the number of times the user writes or removes a note
MaxEdits == 3
\* the same, where every kind of content is written and the directories scanned
MaxScanEdits == 2
\* longest list of file names given on stdin, where a list is a batch
MaxBatch == 2
\* the number of times the user writes or removes a note before a batch
MaxBatchEdits == 2
\* the number of questions put to one Agent
MaxQuestions == 2
\* the number of conditions given to a filter builder
MaxConds == 3
\* the number of calls of get_vectorstore in one process
MaxCalls == 3

(* Program constants *)
CHUNK_SIZE == 1000
CHUNK_OVERLAP == 50
READ_SIZE == 4096
MAX_TRIES == 12
RETRY_DELAY == 5

-----------------------------------------------------------------------------
(* Strings as sequences of characters *)

Min(S) == CHOOSE x \in S : \A y \in S : x <= y

\* s.endswith(suf)
EndsWith(s, suf) ==
    Len(s) >= Len(suf) /\ SubSeq(s, Len(s) - Len(suf) + 1, Len(s)) = suf

\* s.startswith(pre)
StartsWith(s, pre) == Len(s) >= Len(pre) /\ SubSeq(s, 1, Len(pre)) = pre

\* s[:-k]
DropLast(s, k) == IF Len(s) <= k THEN <<>> ELSE SubSeq(s, 1, Len(s) - k)

\* s.split(c)[0]
SplitFirst(s, c) ==
    LET I == {i \in 1..Len(s) : s[i] = c}
    IN  IF I = {} THEN s ELSE SubSeq(s, 1, Min(I) - 1)

\* s.find(sub) != -1
Contains(s, sub) ==
    \E i \in 1..(Len(s) - Len(sub) + 1) : SubSeq(s, i, i + Len(sub) - 1) = sub

DigitChars == <<"0", "1", "2", "3", "4", "5", "6", "7", "8", "9">>

RECURSIVE Decimal(_)
Decimal(n) ==
    IF n < 10 THEN <<DigitChars[n + 1]>>
    ELSE Decimal(n \div 10) \o <<DigitChars[(n % 10) + 1]>>

RECURSIVE ZeroPad(_, _)
ZeroPad(s, w) == IF Len(s) >= w THEN s ELSE ZeroPad(<<"0">> \o s, w)

\* f"{number:04d}"
Fmt04d(number) == ZeroPad(Decimal(number), 4)

MdExt == <<".", "m", "d">>
JsonExt == <<".", "j", "s", "o", "n">>
TxtExt == <<".", "t", "x", "t">>

-----------------------------------------------------------------------------
(* Functions as dictionaries *)

Drop(f, k) == [x \in DOMAIN f \ {k} |-> f[x]]
Put(f, k, v) == (k :> v) @@ f
\* dict.update: the entries of g override those of f
Update(f, g) == g @@ f
Get(f, k, dflt) == IF k \in DOMAIN f THEN f[k] ELSE dflt

-----------------------------------------------------------------------------
(* Lines of a note.  kind: "hdr" (key: value), "sep" (---), "blank",       *)
(* "txt" (plain text without a colon), "ref" (a line holding a URL; key is *)
(* what the URL is: "web", "pdf", "mp3", "yt", "private", "ignored").      *)

Hdr(k, v) == [kind |-> "hdr", key |-> k, val |-> <<v>>]
Txt(v) == [kind |-> "txt", key |-> "", val |-> <<v>>]
Ref(typ, u) == [kind |-> "ref", key |-> typ, val |-> <<u>>]
Blank == [kind |-> "blank", key |-> "", val |-> <<>>]
Sep == [kind |-> "sep", key |-> "", val |-> <<>>]
\* a line of text holding a byte that is no valid UTF-8 (written in latin-1)
Latin1(v) == [kind |-> "latin1", key |-> "", val |-> <<v>>]
\* a heading: hashes is "#", "##" or "###", then a space and the title
Heading(hashes, v) == [kind |-> "head", key |-> hashes, val |-> <<v>>]

\* len(line.split(":", 1)) == 2: a header line, and every URL (https://...)
HasColon(line) == line.kind \in {"hdr", "ref"}
\* line in ("---", "", "...")
IsDelimiter(line) == line.kind \in {"sep", "blank"}

\* header[0].strip().lower() of a line with a colon
Lower(k) ==
    CASE k = "Domain" -> "domain"
      [] k = "Referer" -> "referer"
      [] k = "Date" -> "date"
      [] k = "Url" -> "url"
      [] k = "Source" -> "source"
      [] OTHER -> k
HeaderKey(line) == IF line.kind = "ref" THEN "https" ELSE Lower(line.key)
\* header[1].strip()
HeaderVal(line) == IF line.kind = "ref" THEN <<"//">> \o line.val ELSE line.val

\* bytes of the text of a line (its newline is counted by ReadBytes)
LineBytes(line) ==
    CASE line.kind = "blank" -> 0
      [] line.kind = "txt" /\ line.val = <<"pad">> -> READ_SIZE
      [] OTHER -> 16
\* tokens the splitter's encoding gives a line
LineTokens(line) ==
    CASE line.kind = "blank" -> 0
      [] line.kind = "txt" /\ line.val = <<"pad">> -> CHUNK_SIZE
      [] line.kind = "txt" /\ line.val = <<"p2">> -> CHUNK_SIZE + CHUNK_SIZE
      [] OTHER -> 8

-----------------------------------------------------------------------------
(* Effects.  Every handler works on a record w holding the directories and *)
(* stores it may change and the log of what it did.                        *)

Ev(op, dir, name) == [op |-> op, dir |-> dir, name |-> name]
Logged(w, op, dir, name) == [w EXCEPT !.log = Append(@, Ev(op, dir, name))]

\* os.path.join(directory, "Text", base + ".json"), as the name inside Text/
get_output_file_path(base) == base \o JsonExt

TextPath(name) == <<"Text/">> \o name
ChunkPath(name) == <<"Chunk/">> \o name
DirPath(dir, name) == <<dir, "/">> \o name

\* a comparison that never finds the two times equal
is_same_time_never(ftime, dir, oname) == FALSE

\* os.stat(oname).st_mtime == ftime, False when oname does not exist
is_same_time(ftime, dir, oname) ==
    oname \in DOMAIN dir /\ dir[oname].mtime = ftime

is_history_filename(fname) ==
    \/ Contains(fname, <<"H", "i", "s", "t", "o", "r", "y">>)
    \/ Contains(fname, <<"J", "o", "u", "r", "n", "a", "l">>)
    \/ Contains(fname, <<"S", "t", "a", "t", "u", "s", "R", "e", "p", "o", "r", "t">>)

-----------------------------------------------------------------------------
(* lib.ChecksumStore *)

NoneSum == [none |-> TRUE, digest |-> <<>>]
\* hashlib.md5 over the data fed to it: different data, different digest
Md5(data) == [none |-> FALSE, digest |-> data]

\* in_f.read(n) at the start of the file: the pieces of the first n bytes
RECURSIVE ReadBytes(_, _)
ReadBytes(lines, n) ==
    IF lines = <<>> \/ n = 0 THEN <<>>
    ELSE LET size == LineBytes(Head(lines)) + (IF Len(lines) > 1 THEN 1 ELSE 0)
             k == IF size < n THEN size ELSE n
         IN  (IF k = 0 THEN <<>> ELSE <<[line |-> Head(lines), n |-> k]>>)
             \o ReadBytes(Tail(lines), n - k)

\* the for loop returns inside its first iteration: the digest of the first
\* read; an empty file never enters the loop and the function returns None
compute_checksum(lines) ==
    LET chunk == ReadBytes(lines, READ_SIZE)
    IN  IF chunk = <<>> THEN NoneSum ELSE Md5(chunk)

\* ChecksumStore.__init__ / _load_checksums
load_checksums(file) == file

\* a store that keeps the new checksum in memory only
store_checksum_in_memory(w, filename, checksum) ==
    LET mapping == Put(w.checksums, filename, checksum)
    IN  [w EXCEPT !.checksums = mapping,
                  !.log = Append(@, Ev("store", "Src", filename))]

store_checksum(w, filename, checksum) ==
    LET mapping == Put(w.checksums, filename, checksum)
    IN  [w EXCEPT !.checksums = mapping,
                  !.checksum_file = mapping,
                  !.log = Append(@, Ev("store", "Src", filename))]

\* a store that reports a change without recording the new checksum
has_file_changed_keeps(w, filename, lines) ==
    LET checksum == compute_checksum(lines)
        w1 == Logged(w, "hash", "Src", filename)
    IN  IF filename \notin DOMAIN w1.checksums
        THEN [w |-> store_checksum(w1, filename, checksum), res |-> "None"]
        ELSE IF checksum # w1.checksums[filename]
        THEN [w |-> w1, res |-> "True"]
        ELSE [w |-> w1, res |-> "False"]

\* returns "None", "True" or "False"
has_file_changed(w, filename, lines) ==
    LET checksum == compute_checksum(lines)
        w1 == Logged(w, "hash", "Src", filename)
    IN  IF filename \notin DOMAIN w1.checksums
        THEN [w |-> store_checksum(w1, filename, checksum), res |-> "None"]
        ELSE IF checksum # w1.checksums[filename]
        THEN [w |-> store_checksum(w1, filename, checksum), res |-> "True"]
        ELSE [w |-> w1, res |-> "False"]

\* an ISO string that keeps every other tick of the clock only
isoformat_truncated(at) == [iso |-> at - (at % 2)]
\* An instant is a number, as a datetime and as a timestamp alike: those of
\* the clock are positive, those a date is parsed to are negative.  In a JSON
\* file a datetime is the string isoformat gives, [iso |-> instant].
isoformat(at) == [iso |-> at]
\* the keys under which a datetime object is held: the two the program uses,
\* and two more in the direct calls of the encoder
DateTimeKeys == {"last_accessed_at", "created_at", "start_date", "timestamp"}
\* json.dump(..., cls=DateTimeEncoder): default() is called for the datetimes
DateTimeEncoder(metadata) ==
    [k \in DOMAIN metadata |->
        IF k \in DateTimeKeys THEN isoformat(metadata[k]) ELSE metadata[k]]

\* datetime.datetime.fromisoformat(val) of the string under key; ValueError
\* for a string that is no ISO date
fromisoformat(key, val) ==
    IF key \in DateTimeKeys THEN [ok |-> TRUE, at |-> val.iso]
    ELSE IF val = <<"2024-01-05">> THEN [ok |-> TRUE, at |-> -20]
    ELSE [ok |-> FALSE, at |-> 0]
\* key.endswith("_at") or key.find("date") != -1, for the keys of the model
DateLikeKeys == {"last_accessed_at", "created_at", "date", "update", "start_date"}
datetime_decoder(dct) ==
    [k \in DOMAIN dct |->
        IF k \in DateLikeKeys /\ fromisoformat(k, dct[k]).ok
        THEN fromisoformat(k, dct[k]).at
        ELSE dct[k]]

-----------------------------------------------------------------------------
(* transform_md.py *)

\* a save that never compares with the stored text
save_content_always(w, file_path, content, check_content, metadata, t) ==
    [w |-> [w EXCEPT
              !.text = Put(@, file_path,
                           [mtime |-> t, text |-> content,
                            metadata |-> DateTimeEncoder(metadata)]),
              !.log = Append(@, Ev("write", "Text", file_path))],
     res |-> TRUE]

\* returns True when the file was written
save_content(w, file_path, content, check_content, metadata, t) ==
    IF /\ check_content
       /\ file_path \in DOMAIN w.text
       /\ w.text[file_path].text = content
    THEN [w |-> Logged(w, "read", "Text", file_path), res |-> FALSE]
    ELSE [w |-> [w EXCEPT
                   !.text = Put(@, file_path,
                                [mtime |-> t, text |-> content,
                                 metadata |-> DateTimeEncoder(metadata)]),
                   !.log = Append(@, Ev("write", "Text", file_path))],
          res |-> TRUE]

\* hashlib.md5(url.encode("utf-8")).hexdigest(): one name per URL
Md5Hex(url) == <<"#">> \o url

UrlOf(line) ==
    IF line.key = "yt" THEN <<"https://www.youtube.com/embed/">> \o line.val
    ELSE <<"https://">> \o line.val
VideoId(line) == line.val
PageText(o) == <<Txt(o)>>

FetchedMeta(url, basename, typ, last_accessed_at) ==
    [url |-> url, referer |-> basename, type |-> <<typ>>,
     last_accessed_at |-> last_accessed_at]

\* o: what the network gives this line: o.a the transcript, o.b the audio
\* download, o.c the page ("err" when there is none)
process_youtube_line(w, basename, line, last_accessed_at, o, t) ==
    IF ~(line.kind = "ref" /\ line.key = "yt") THEN [w |-> w, res |-> FALSE]
    ELSE
    LET video_id == VideoId(line)
        transcript_path == get_output_file_path(video_id)
        url == <<"https://www.youtube.com/watch/">> \o video_id
        meta == FetchedMeta(url, basename, "youtube", last_accessed_at)
        w1 == Logged(w, "fetch", "transcript", transcript_path)
        w2 == Logged(w1, "fetch", "whisper", transcript_path)
    IN  IF transcript_path \in DOMAIN w.text THEN [w |-> w, res |-> TRUE]
        ELSE IF o.a # "err"
        THEN [w |-> save_content(w1, transcript_path, PageText(o.a), TRUE, meta, t).w,
              res |-> TRUE]
        ELSE IF o.b = "err" THEN [w |-> w2, res |-> FALSE]
        ELSE [w |-> save_content(w2, transcript_path, PageText(o.b), TRUE, meta, t).w,
              res |-> TRUE]

\* o.a = "nokey": ASSEMBLYAI_API_KEY is not set
process_mp3_line(w, basename, line, last_accessed_at, o, t) ==
    IF ~(line.kind = "ref" /\ line.key = "mp3") THEN [w |-> w, res |-> FALSE]
    ELSE
    LET url == UrlOf(line)
        output_path == get_output_file_path(Md5Hex(url))
        meta == FetchedMeta(url, basename, "audio", last_accessed_at)
        w1 == Logged(w, "fetch", "audio", output_path)
    IN  IF o.a = "nokey" THEN [w |-> w, res |-> TRUE]
        ELSE IF output_path \in DOMAIN w.text THEN [w |-> w, res |-> TRUE]
        ELSE IF o.a # "err"
        THEN [w |-> save_content(w1, output_path, PageText(o.a), TRUE, meta, t).w,
              res |-> TRUE]
        ELSE [w |-> w1, res |-> TRUE]

\* a handler that writes an artifact without text for a URL it could not get
process_url_line_saves_nothing(w, basename, line, last_accessed_at, o, t) ==
    IF line.kind # "ref" THEN [w |-> w, res |-> FALSE]
    ELSE LET output_path == get_output_file_path(Md5Hex(UrlOf(line)))
             typ == IF line.key = "pdf" THEN "pdf" ELSE "web"
         IN  [w |-> save_content(
                        Logged(w, "fetch", typ, output_path),
                        output_path, <<Blank>>, TRUE,
                        FetchedMeta(UrlOf(line), basename, typ, last_accessed_at), t).w,
              res |-> TRUE]

process_url_line(w, basename, line, last_accessed_at, o, t) ==
    IF line.kind # "ref" THEN [w |-> w, res |-> FALSE]
    ELSE IF line.key \in {"private", "ignored"} THEN [w |-> w, res |-> TRUE]
    ELSE
    LET url == UrlOf(line)
        output_path == get_output_file_path(Md5Hex(url))
        got == IF line.key = "yt" THEN o.c ELSE o.a
    IN  IF line.key = "pdf"
        THEN IF output_path \in DOMAIN w.text THEN [w |-> w, res |-> TRUE]
             ELSE IF got = "err"
             THEN [w |-> Logged(w, "fetch", "pdf", output_path), res |-> TRUE]
             ELSE [w |-> save_content(
                            Logged(Logged(w, "fetch", "pdf", output_path),
                                   "write", "Orig", url),
                            output_path, PageText(got), TRUE,
                            FetchedMeta(url, basename, "pdf", last_accessed_at), t).w,
                   res |-> TRUE]
        ELSE IF got = "err"
             THEN [w |-> Logged(w, "fetch", "web", output_path), res |-> TRUE]
             ELSE [w |-> save_content(
                            Logged(w, "fetch", "web", output_path),
                            output_path, PageText(got), TRUE,
                            FetchedMeta(url, basename, "web", last_accessed_at), t).w,
                   res |-> TRUE]

process_line(w, basename, line, last_accessed_at, o, t) ==
    IF line.kind = "blank" THEN [w |-> w, res |-> TRUE]
    ELSE
    LET y == process_youtube_line(w, basename, line, last_accessed_at, o, t)
        m == process_mp3_line(y.w, basename, line, last_accessed_at, o, t)
    IN  IF y.res THEN y
        ELSE IF m.res THEN m
        ELSE process_url_line(m.w, basename, line, last_accessed_at, o, t)

NoNet == [a |-> "err", b |-> "err", c |-> "err"]

\* the loop of process_content from line i on
RECURSIVE ProcessLines(_, _, _, _, _, _, _, _)
ProcessLines(w, basename, lines, i, in_header, last_accessed_at, orc, t) ==
    IF i > Len(lines) THEN w
    ELSE IF in_header /\ (IsDelimiter(lines[i]) \/ HasColon(lines[i]))
    THEN ProcessLines(w, basename, lines, i + 1, TRUE, last_accessed_at, orc, t)
    ELSE ProcessLines(
             process_line(w, basename, lines[i], last_accessed_at,
                          Get(orc, lines[i], NoNet), t).w,
             basename, lines, i + 1, FALSE, last_accessed_at, orc, t)

process_content(w, basename, lines, last_accessed_at, orc, t) ==
    ProcessLines(w, basename, lines, 1, TRUE, last_accessed_at, orc, t)

\* "%Y/%m/%d %H:%M" parsed by datetime.strptime; ValueError otherwise
StrpTimeHeader(val) ==
    IF val = <<"2024/01/05 10:00">>
    THEN [ok |-> TRUE, at |-> -10]
    ELSE [ok |-> FALSE, at |-> 0]

\* the index at which the loop of get_metadata breaks, 0 when it never does
BreakAt(lines) ==
    LET I == {i \in 1..Len(lines) : ~HasColon(lines[i]) /\ ~IsDelimiter(lines[i])}
    IN  IF I = {} THEN 0 ELSE Min(I)

RECURSIVE HeaderDict(_, _)
HeaderDict(lines, n) ==
    IF n = 0 THEN <<>>
    ELSE LET d == HeaderDict(lines, n - 1)
         IN  IF HasColon(lines[n])
             THEN Put(d, HeaderKey(lines[n]), HeaderVal(lines[n]))
             ELSE d

get_metadata(lines) ==
    LET b == BreakAt(lines)
        idx == IF b = 0 THEN Len(lines) ELSE b
        raw == HeaderDict(lines, IF b = 0 THEN Len(lines) ELSE b - 1)
        metadata ==
            IF "date" \in DOMAIN raw /\ StrpTimeHeader(raw["date"]).ok
            THEN Put(Drop(raw, "date"), "created_at", StrpTimeHeader(raw["date"]).at)
            ELSE raw
    IN  [metadata |-> metadata, content |-> SubSeq(lines, idx, Len(lines))]

\* a file of the source directory or of out_dir/Markdown
MdFile(w, dir, name) == IF dir = "Src" THEN notes[name] ELSE w.markdown[name]

NoMetadata == [none |-> TRUE, md |-> <<>>]

\* metadata: NoMetadata for the first file, else what the previous call returned
write_output_file(w, dir, md_file, metadata, t, orc) ==
    LET f == MdFile(w, dir, md_file)
        last_accessed_at == f.mtime
        basename == DropLast(md_file, 3)
        g == get_metadata(f.lines)
        m1 == IF metadata.none
              THEN Put(g.metadata, "type", <<"notes">>)
              ELSE Put(Update(metadata.md, g.metadata), "type", <<"history">>)
        m2 == Put(m1, "last_accessed_at", last_accessed_at)
        m3 == IF "url" \in DOMAIN m2 THEN m2
              ELSE Put(m2, "url", <<"file://">> \o DirPath(dir, md_file))
        s == save_content(w, get_output_file_path(basename), g.content, TRUE, m3, t)
    IN  [w |-> IF s.res
               THEN process_content(s.w, basename, f.lines, last_accessed_at, orc, t)
               ELSE s.w,
         metadata |-> [none |-> FALSE, md |-> m3]]

\* content.find("## History") != -1
HasHistoryMarker(lines) ==
    \E i \in 1..Len(lines) : /\ lines[i].kind = "head"
                              /\ lines[i].key \in {"##", "###"}
                              /\ lines[i].val = <<"History">>

\* line[level:].strip() of a heading that starts with level hashes
Undash(line, level) ==
    LET rest == CASE line.key = "###" /\ level = 1 -> "##"
                  [] line.key = "###" /\ level = 2 -> "#"
                  [] line.key = "##" /\ level = 1 -> "#"
                  [] OTHER -> ""
    IN  IF rest = "" THEN [kind |-> "txt", key |-> "", val |-> line.val]
        ELSE Heading(rest, line.val[1])
StartsWithDashes(line, level) ==
    /\ line.kind = "head"
    /\ line.key \in (IF level = 1 THEN {"#", "##", "###"} ELSE {"##", "###"})
remove_dash(lines, level) ==
    [idx \in 1..Len(lines) |->
        IF StartsWithDashes(lines[idx], level) THEN Undash(lines[idx], level)
        ELSE lines[idx]]

\* strptime(date_str, "%d %B %Y"), then "%d %b %Y"; ok is FALSE when both
\* raise ValueError.  dd and ymd are strftime("%d") and strftime("%Y%m%d"),
\* at the datetime returned, noon the instant twelve hours after it.
get_date(date_str) ==
    CASE date_str = "05 January 2024" ->
             [ok |-> TRUE, dd |-> <<"0", "5">>,
              ymd |-> <<"2", "0", "2", "4", "0", "1", "0", "5">>,
              at |-> -20, noon |-> -9]
      [] date_str = "06 Jan 2024" ->
             [ok |-> TRUE, dd |-> <<"0", "6">>,
              ymd |-> <<"2", "0", "2", "4", "0", "1", "0", "6">>,
              at |-> -8, noon |-> -7]
      [] date_str = "05 February 2024" ->
             [ok |-> TRUE, dd |-> <<"0", "5">>,
              ymd |-> <<"2", "0", "2", "4", "0", "2", "0", "5">>,
              at |-> -6, noon |-> -5]
      [] OTHER -> [ok |-> FALSE, dd |-> <<>>, ymd |-> <<>>, at |-> 0, noon |-> 0]

\* re.sub(r"\d+", "", referer)
clean_referer(referer) ==
    SelectSeq(referer, LAMBDA ch : \A i \in 1..Len(DigitChars) : ch # DigitChars[i])

\* the titles that match \d\d \w+ \d\d\d\d
DateLike == {"05 January 2024", "06 Jan 2024", "05 February 2024", "31 Foo 2024"}
\* the lines that DATE2_REGEXP (level 1) or DATE3_REGEXP (level 2) matches
DateHeadings(lines, level) ==
    {i \in 1..Len(lines) : /\ lines[i].kind = "head"
                           /\ lines[i].key = (IF level = 1 THEN "##" ELSE "###")
                           /\ lines[i].val[1] \in DateLike}
RECURSIVE Ascending(_)
Ascending(S) ==
    IF S = {} THEN <<>> ELSE <<Min(S)>> \o Ascending(S \ {Min(S)})

\* fragments stamped with an instant before the noon of their day
RECURSIVE WriteFragments_before_noon(_, _, _, _, _, _)
WriteFragments_before_noon(w, basename, lines, heads, idx, level) ==
    IF idx > Len(heads) THEN [w |-> w, files |-> <<>>]
    ELSE
    LET h == heads[idx]
        title == lines[h].val[1]
        history_date == get_date(title)
        body == IF idx = Len(heads)
                THEN SubSeq(lines, h + 1, Len(lines))
                ELSE SubSeq(lines, h + 1, heads[idx + 1] - 1) \o <<Blank>>
        date == IF level = 1 THEN history_date.dd ELSE history_date.ymd
        part_fname == basename \o date \o MdExt
        part == [mtime |-> history_date.noon - 12,
                 lines |-> << Sep,
                              [kind |-> "hdr", key |-> "Referer",
                               val |-> clean_referer(basename)],
                              Sep, Blank, Heading("#", title) >>
                           \o remove_dash(body, level)]
    IN  IF ~history_date.ok
        THEN WriteFragments_before_noon(w, basename, lines, heads, idx + 1, level)
        ELSE LET r == WriteFragments_before_noon(
                          [w EXCEPT !.markdown = Put(@, part_fname, part),
                                    !.log = Append(@, Ev("write", "Markdown", part_fname))],
                          basename, lines, heads, idx + 1, level)
             IN  [w |-> r.w,
                  files |-> <<[dir |-> "Markdown", name |-> part_fname]>> \o r.files]

\* the loop over history[idx], history[idx + 1]; heads are the lines of the
\* headings, in order
RECURSIVE WriteFragments(_, _, _, _, _, _)
WriteFragments(w, basename, lines, heads, idx, level) ==
    IF idx > Len(heads) THEN [w |-> w, files |-> <<>>]
    ELSE
    LET h == heads[idx]
        title == lines[h].val[1]
        history_date == get_date(title)
        body == IF idx = Len(heads)
                THEN SubSeq(lines, h + 1, Len(lines))
                ELSE SubSeq(lines, h + 1, heads[idx + 1] - 1) \o <<Blank>>
        date == IF level = 1 THEN history_date.dd ELSE history_date.ymd
        part_fname == basename \o date \o MdExt
        part == [mtime |-> history_date.noon,
                 lines |-> << Sep,
                              [kind |-> "hdr", key |-> "Referer",
                               val |-> clean_referer(basename)],
                              Sep, Blank, Heading("#", title) >>
                           \o remove_dash(body, level)]
    IN  IF ~history_date.ok
        THEN WriteFragments(w, basename, lines, heads, idx + 1, level)
        ELSE LET r == WriteFragments(
                          [w EXCEPT !.markdown = Put(@, part_fname, part),
                                    !.log = Append(@, Ev("write", "Markdown", part_fname))],
                          basename, lines, heads, idx + 1, level)
             IN  [w |-> r.w,
                  files |-> <<[dir |-> "Markdown", name |-> part_fname]>> \o r.files]

\* open(fname, "r", encoding="UTF-8").read() does not raise UnicodeDecodeError
Utf8Valid(lines) == \A i \in 1..Len(lines) : lines[i].kind # "latin1"

\* the list of [dir, name] that split_md_file returns; called on a file that
\* Utf8Valid
split_md_file(w, fname) ==
    LET lines == notes[fname].lines
        basename == DropLast(fname, 3)
        level == IF is_history_filename(fname) THEN 1
                 ELSE IF HasHistoryMarker(lines) THEN 2 ELSE 0
        heads == Ascending(DateHeadings(lines, level))
        base_fname == basename \o MdExt
        base == [mtime |-> notes[fname].mtime,
                 lines |-> SubSeq(lines, 1, heads[1] - 1) \o <<Blank>>]
    IN  IF level = 0 THEN [w |-> w, files |-> <<[dir |-> "Src", name |-> fname]>>]
        ELSE IF heads = <<>> THEN [w |-> w, files |-> <<>>]
        ELSE LET r == WriteFragments(
                          [w EXCEPT !.markdown = Put(@, base_fname, base),
                                    !.log = Append(@, Ev("write", "Markdown", base_fname))],
                          basename, lines, heads, 1, level)
             IN  [w |-> r.w,
                  files |-> <<[dir |-> "Markdown", name |-> base_fname]>> \o r.files]

RECURSIVE WriteOutputFiles(_, _, _, _, _)
WriteOutputFiles(w, md_files, metadata, t, orc) ==
    IF md_files = <<>> THEN w
    ELSE LET r == write_output_file(w, Head(md_files).dir, Head(md_files).name,
                                    metadata, t, orc)
         IN  WriteOutputFiles(r.w, Tail(md_files), r.metadata, t, orc)

\* glob.glob(os.path.join(out_dir, "Markdown", basename + "*.md"))
GlobFragments(w, basename) ==
    {h \in DOMAIN w.markdown : StartsWith(h, basename) /\ EndsWith(h, MdExt)
                               /\ Len(h) >= Len(basename) + Len(MdExt)}

\* the loop over the fragments of a removed history note, in the order hnames
RECURSIVE RemoveFragments(_, _)
RemoveFragments(w, hnames) ==
    IF hnames = <<>> THEN [w |-> w, res |-> "True"]
    ELSE LET hname == Head(hnames)
             oname == get_output_file_path(DropLast(hname, 3))
             w1 == [w EXCEPT !.markdown = Drop(@, hname),
                             !.log = Append(@, Ev("remove", "Markdown", hname))]
         IN  IF oname \notin DOMAIN w1.text
             THEN [w |-> Logged(w1, "raise", "Text", oname), res |-> "raise"]
             ELSE RemoveFragments(
                      [w1 EXCEPT !.text = Drop(@, oname),
                                 !.log = Append(@, Ev("remove", "Text", oname))],
                      Tail(hnames))

\* res: "True", "False", or "raise" when an exception leaves the function
process_md_file(w, fname, t, orc, hnames) ==
    IF ~EndsWith(fname, MdExt) THEN [w |-> w, res |-> "False"]
    ELSE
    LET basename == DropLast(fname, 3)
        oname == get_output_file_path(basename)
    IN  IF fname \notin DOMAIN notes
        THEN IF oname \notin DOMAIN w.text
             THEN [w |-> Logged(w, "raise", "Text", oname), res |-> "raise"]
             ELSE LET w1 == [w EXCEPT !.text = Drop(@, oname),
                                      !.log = Append(@, Ev("remove", "Text", oname))]
                  IN  IF is_history_filename(fname)
                      THEN RemoveFragments(w1, hnames)
                      ELSE [w |-> w1, res |-> "True"]
        ELSE IF is_same_time(notes[fname].mtime, w.text, oname)
        THEN [w |-> w, res |-> "False"]
        ELSE
        LET c == has_file_changed(w, fname, notes[fname].lines)
            s == split_md_file(c.w, fname)
        IN  IF c.res # "False" \/ oname \notin DOMAIN c.w.text
            THEN IF ~Utf8Valid(notes[fname].lines)
                 THEN \* fptr.read() in split_md_file raises
                      [w |-> Logged(c.w, "raise", "Src", fname), res |-> "raise"]
                 ELSE [w |-> WriteOutputFiles(s.w, s.files, NoMetadata, t, orc),
                       res |-> "True"]
            ELSE [w |-> c.w, res |-> "False"]

-----------------------------------------------------------------------------
(* transform_txt.py *)

RECURSIVE Tokens(_)
Tokens(lines) == IF lines = <<>> THEN 0 ELSE LineTokens(Head(lines)) + Tokens(Tail(lines))

\* TokenTextSplitter(chunk_size, chunk_overlap).split_text on n tokens from start on:
\* the token ranges of the chunks
RECURSIVE SplitOnTokens(_, _, _, _)
SplitOnTokens(start, n, chunk_size, chunk_overlap) ==
    IF start >= n THEN <<>>
    ELSE LET cur == IF start + chunk_size < n THEN start + chunk_size ELSE n
         IN  <<[from |-> start, to |-> cur]>>
             \o (IF cur = n THEN <<>>
                 ELSE SplitOnTokens(start + chunk_size - chunk_overlap, n,
                                    chunk_size, chunk_overlap))

\* get_splitter().split_text(content): each chunk is a token range of the content
split_text(content) ==
    LET ranges == SplitOnTokens(0, Tokens(content), CHUNK_SIZE, CHUNK_OVERLAP)
    IN  [i \in 1..Len(ranges) |->
            [of |-> content, from |-> ranges[i].from, to |-> ranges[i].to]]

\* chunk ids numbered from 0
ChunkId_from_zero(basename, number) ==
    basename \o <<"-">> \o Fmt04d(number - 1) \o TxtExt

\* f"{basename}-{number:04d}.txt"
ChunkId(basename, number) == basename \o <<"-">> \o Fmt04d(number) \o TxtExt

\* chunks numbered from 0 in their metadata
process_chunk_parts_from_zero(w, chunk, metadata, fname, basename, number) ==
    LET chunk_id == ChunkId(basename, number)
        m1 == Put(Put(Put(metadata, "part", number - 1),
                      "source", ChunkPath(chunk_id)),
                  "main_source", TextPath(fname))
        chunk_metadata == IF "referer" \in DOMAIN m1 THEN m1
                          ELSE Put(m1, "referer", basename)
    IN  [w |-> [w EXCEPT
                  !.chunks = Put(@, chunk_id,
                                 [mtime |-> text[fname].mtime, text |-> chunk]),
                  !.log = Append(@, Ev("write", "Chunk", chunk_id))],
         metadata |-> chunk_metadata,
         id |-> chunk_id]

\* fname: the artifact's name in Text/
process_chunk(w, chunk, metadata, fname, basename, number) ==
    LET chunk_id == ChunkId(basename, number)
        m1 == Put(Put(Put(metadata, "part", number),
                      "source", ChunkPath(chunk_id)),
                  "main_source", TextPath(fname))
        chunk_metadata == IF "referer" \in DOMAIN m1 THEN m1
                          ELSE Put(m1, "referer", basename)
    IN  [w |-> [w EXCEPT
                  !.chunks = Put(@, chunk_id,
                                 [mtime |-> text[fname].mtime, text |-> chunk]),
                  !.log = Append(@, Ev("write", "Chunk", chunk_id))],
         metadata |-> chunk_metadata,
         id |-> chunk_id]

\* val.timestamp() for every value that datetime_decoder made a datetime
ToTimestamps(metadata) == metadata

validate_and_extract_url(w, fname, basename) ==
    IF ~EndsWith(fname, JsonExt) THEN [ok |-> FALSE, metadata |-> <<>>, text |-> <<>>]
    ELSE IF is_same_time(text[fname].mtime, w.chunks, ChunkId(basename, 1))
    THEN [ok |-> FALSE, metadata |-> <<>>, text |-> <<>>]
    ELSE [ok |-> TRUE,
          metadata |-> ToTimestamps(datetime_decoder(text[fname].metadata)),
          text |-> text[fname].text]

\* the ids indexer.get(where={"$or": [main_source = fname, referer = basename]}) returns
RelatedIds(w, fname, basename) ==
    {id \in DOMAIN w.index :
        \/ w.index[id].metadata["main_source"] = TextPath(fname)
        \/ w.index[id].metadata["referer"] = basename}

remove_related_files(w, fname) ==
    LET basename == SplitFirst(SplitFirst(fname, "."), "-")
        ids == RelatedIds(w, fname, basename)
        w1 == [w EXCEPT !.index = [id \in DOMAIN @ \ ids |-> @[id]],
                        !.chunks = [id \in DOMAIN @ \ ids |-> @[id]],
                        !.log = Append(@, Ev("delete", "Index", basename))]
    IN  IF ids = {} THEN [w |-> w, res |-> "None"]
        ELSE IF ids \subseteq DOMAIN w.chunks THEN [w |-> w1, res |-> "None"]
        ELSE [w |-> Logged(w1, "raise", "Chunk", basename), res |-> "raise"]

\* the loop of process_file over the chunks from number on: the chunk files
\* are written and the records [id, text, metadata] collected
RECURSIVE ProcessChunks(_, _, _, _, _, _, _)
ProcessChunks(w, recs, parts, metadata, fname, basename, number) ==
    IF number > Len(parts) THEN [w |-> w, recs |-> recs]
    ELSE LET r == process_chunk(w, parts[number], metadata, fname, basename, number)
         IN  ProcessChunks(r.w,
                           Append(recs, [id |-> r.id, text |-> parts[number],
                                         metadata |-> r.metadata]),
                           parts, metadata, fname, basename, number + 1)

\* indexer.add_texts(texts, metadatas, ids=ids): one record per id, replaced if there
RECURSIVE add_texts(_, _)
add_texts(w, recs) ==
    IF recs = <<>> THEN w
    ELSE add_texts(
             [w EXCEPT !.index = Put(@, Head(recs).id,
                                     [text |-> Head(recs).text,
                                      metadata |-> Head(recs).metadata]),
                       !.log = Append(@, Ev("add", "Index", Head(recs).id))],
             Tail(recs))

\* upsert: "ok", or "raise" when the vector store fails in add_texts
process_file(w, fname, upsert) ==
    LET basename == DropLast(fname, 5)
        v == validate_and_extract_url(w, fname, basename)
        c == ProcessChunks(w, <<>>, split_text(v.text), v.metadata, fname, basename, 1)
    IN  IF fname \notin DOMAIN text THEN remove_related_files(w, fname)
        ELSE IF ~v.ok THEN [w |-> w, res |-> "None"]
        ELSE IF c.recs = <<>> THEN [w |-> c.w, res |-> "None"]
        ELSE IF upsert = "raise"
        THEN [w |-> Logged(c.w, "raise", "Index", basename), res |-> "raise"]
        ELSE [w |-> add_texts(c.w, c.recs), res |-> "None"]

-----------------------------------------------------------------------------
(* lib.Agent, extractors.py and similarity.py.  A filter of the vector     *)
(* store is a tree: a condition {key: {op: val}} or {key: val} (op ""),    *)
(* or a combinator with its list of children.                              *)

Str(x) == [s |-> x, n |-> 0]
Num(x) == [s |-> "", n |-> x]
Cond(key, op, val) ==
    [node |-> "cond", key |-> key, op |-> op, val |-> val, children |-> <<>>]
Comb(name, children) ==
    [node |-> name, key |-> "", op |-> "", val |-> Str(""), children |-> children]
\* no filter: the retriever Agent.__init__ gives the chain
NoFilter == Comb("none", <<>>)

\* datetime.combine(d, datetime.min.time()).timestamp(), d a day number
StartOfDay(d) == d * 86400
\* datetime.combine(d, datetime.time(23, 59, 59)).timestamp()
EndOfDay(d) == d * 86400 + (23 * 3600 + 59 * 60 + 59)

\* res_intent.intent.lower()
LowerIntent(label) ==
    CASE label = "Activity Report Request" -> "activity report request"
      [] label = "Regular Question" -> "regular question"
      [] OTHER -> label

\* What an extractor gives: kind "raise" when the call of the model raises
\* (it is made outside the try), "none" when the parser raises and None is
\* returned, "ok" with the parsed object otherwise.
Extracted(kind, obj) == [kind |-> kind, obj |-> obj]
NoObj == [intent |-> "", start_date |-> 0, end_date |-> 0, document_names |-> <<>>]

SUBJECT == "Highlight the main events and activities."

\* Agent.__init__: the chain retrieves without search_kwargs
NewAgent ==
    [chain |-> NoFilter, asked |-> 0, question |-> "", route |-> "none",
     res |-> "none", retrievals |-> <<>>, given |-> <<>>, built |-> NoFilter, args |-> <<>>]

\* self.chain.invoke({"question": question}): one retrieval with the filter
\* the chain's retriever was built with
Invoke(a, question) ==
    [a EXCEPT !.retrievals = Append(@, [question |-> question, filter |-> a.chain]),
              !.res = "ok"]

\* o: what extract_step_back gives
_regular_question(a, user_question, o) ==
    LET a1 == [a EXCEPT !.route = "regular"]
    IN  IF o.step.kind = "raise" THEN [a1 EXCEPT !.res = "raise"] ELSE Invoke(a1, user_question)

\* a period that ends at the first second of its last day
PeriodClause_end_at_midnight(res_dates) ==
    <<Cond("type", "$eq", Str("history"))>>
    \o (IF res_dates.kind = "ok"
        THEN <<Cond("last_accessed_at", "$gte", Num(StartOfDay(res_dates.obj.start_date))),
               Cond("last_accessed_at", "$lte", Num(StartOfDay(res_dates.obj.end_date)))>>
        ELSE <<>>)

\* the and_clause of _activity_report before the documents are added
PeriodClause(res_dates) ==
    <<Cond("type", "$eq", Str("history"))>>
    \o (IF res_dates.kind = "ok"
        THEN <<Cond("last_accessed_at", "$gte", Num(StartOfDay(res_dates.obj.start_date))),
               Cond("last_accessed_at", "$lte", Num(EndOfDay(res_dates.obj.end_date)))>>
        ELSE <<>>)
\* documents looked for by the name of the note that refers to them
DocumentsClause_by_referer(document_names) ==
    LET or_clause == [i \in 1..Len(document_names) |->
                         Cond("referer", "$eq", Str(document_names[i]))]
    IN  IF Len(or_clause) > 1 THEN <<Comb("$or", or_clause)>> ELSE or_clause

\* the or_clause, as the list of what is appended to and_clause
DocumentsClause(document_names) ==
    LET or_clause == [i \in 1..Len(document_names) |->
                         Cond("domain", "$eq", Str(document_names[i]))]
    IN  IF Len(or_clause) > 1 THEN <<Comb("$or", or_clause)>> ELSE or_clause

\* o: what extract_period and extract_documents give
_activity_report(a, user_question, o) ==
    LET a1 == [a EXCEPT !.route = "activity"]
        and_clause == PeriodClause(o.period) \o DocumentsClause(o.docs.obj.document_names)
        where_clause == IF Len(and_clause) > 1 THEN Comb("$and", and_clause)
                        ELSE and_clause[1]
    IN  IF o.period.kind = "raise" THEN [a1 EXCEPT !.res = "raise"]
        ELSE IF o.docs.kind = "raise" THEN [a1 EXCEPT !.res = "raise"]
        ELSE IF o.docs.kind = "none"
        THEN \* res_doc.document_names of None: AttributeError
             [a1 EXCEPT !.res = "raise"]
        ELSE Invoke([a1 EXCEPT !.chain = where_clause], SUBJECT)

_get_response(a, user_question, o) ==
    IF o.intent.kind = "raise" THEN [a EXCEPT !.res = "raise"]
    ELSE IF o.intent.kind = "none"
            \/ LowerIntent(o.intent.obj.intent) = "regular question"
    THEN _regular_question(a, user_question, o)
    ELSE IF LowerIntent(o.intent.obj.intent) = "activity report request"
    THEN _activity_report(a, user_question, o)
    ELSE _regular_question(a, user_question, o)

\* a filter that chains binary combinators
RECURSIVE _build_filter_nested(_)
_build_filter_nested(metadata) ==
    IF metadata.none \/ Len(metadata.items) = 0 THEN NoFilter
    ELSE IF Len(metadata.items) = 1 THEN metadata.items[1]
    ELSE Comb("$and", <<metadata.items[1],
                        _build_filter_nested([metadata EXCEPT !.items = Tail(@)])>>)

\* metadata: None, or a dict given as the list of its items, each {key: val}
\* of its own; the result is the dict of keyword arguments, NoFilter for {}
_build_filter(metadata) ==
    IF metadata.none \/ Len(metadata.items) = 0 THEN NoFilter
    ELSE IF Len(metadata.items) = 1 THEN metadata.items[1]
    ELSE Comb("$and", metadata.items)

\* similarity.split_filter(args); arg.split("=", 1) gives the key, and the
\* rest when there is a "="; ok is FALSE when dict() or the index [1] raises
\* for an argument without "="
split_filter(args) ==
    LET HasEq(arg) == \E i \in 1..Len(arg) : arg[i] = "="
        KeyOf(arg) == SplitFirst(arg, "=")
        RestOf(arg) == SubSeq(arg, Len(KeyOf(arg)) + 2, Len(arg))
        item(arg) == Cond(KeyOf(arg), "", Str(RestOf(arg)))
    IN  IF Len(args) = 0 THEN [ok |-> TRUE, filter |-> NoFilter]
        ELSE IF \E i \in 1..Len(args) : ~HasEq(args[i])
        THEN [ok |-> FALSE, filter |-> NoFilter]
        ELSE IF Len(args) = 1 THEN [ok |-> TRUE, filter |-> item(args[1])]
        ELSE [ok |-> TRUE,
              filter |-> Comb("$and", [i \in 1..Len(args) |-> item(args[i])])]

-----------------------------------------------------------------------------
(* The environment and the two stages *)

\* the note files of the source directory
NoteBases == {<<"a">>, <<"a", "-", "b">>}
TwoNotes == {b \o MdExt : b \in NoteBases}
\* a note that is_history_filename takes for a journal
Journal == <<"J", "o", "u", "r", "n", "a", "l">> \o MdExt
\* a second journal, its basename beginning with that of the first
Journal2 == <<"J", "o", "u", "r", "n", "a", "l", "2">> \o MdExt
NoteFiles == TwoNotes \cup {Journal, Journal2}
ArtifactOf(n) == get_output_file_path(DropLast(n, 3))

\* the contents a note is given: a header that changes over the same body,
\* and a reference to a web page
Contents ==
    { <<Hdr("Domain", "work"), Blank, Txt("t1"), Blank>>,
      <<Hdr("Domain", "home"), Blank, Txt("t1"), Blank>>,
      <<Txt("t1"), Ref("web", "u1"), Blank>> }

\* the other kinds of reference, texts of several chunks, an empty note,
\* a note with a history section, a note that names its source
ScanContents ==
    { <<Txt("t1"), Txt("pad"), Ref("pdf", "u2"), Blank>>,
      <<Hdr("Source", "wiki"), Blank, Txt("t1"), Blank>>,
      <<Txt("t2"), Ref("yt", "v1"), Blank>>,
      <<Txt("p2"), Ref("mp3", "u3")>>,
      <<Blank>>,
      <<Txt("t1"), Heading("##", "History"),
        Heading("###", "05 January 2024"), Txt("t2"), Blank>> }

\* what a journal holds: two days of different months, no day at all, a day
\* and a heading that is no date, the same under another header
HistContents ==
    { <<Heading("##", "05 January 2024"), Txt("t1"),
        Heading("##", "05 February 2024"), Txt("t2")>>,
      <<Txt("t1"), Blank>>,
      <<Hdr("Domain", "work"), Heading("##", "06 Jan 2024"), Txt("t1"),
        Heading("##", "31 Foo 2024"), Txt("t2"), Blank>>,
      <<Hdr("Domain", "home"), Heading("##", "06 Jan 2024"), Txt("t1"),
        Heading("##", "31 Foo 2024"), Txt("t2"), Blank>> }

\* two notes that hold the same reference
SharedContents == { <<Txt("t1"), Ref("web", "u1"), Blank>> }

\* files that differ in their first block, only after it, or are empty (a
\* single line without text)
BlockContents ==
    { <<Txt("t1")>>, <<Txt("t2")>>,
      <<Txt("pad"), Txt("t1")>>, <<Txt("pad"), Txt("t2")>>,
      <<Blank>> }

\* The instants that the files and records of a state S hold.
MetaStamps(dir) ==
    {dir[x].metadata["last_accessed_at"] : x \in DOMAIN dir}
IsoStamps(dir) ==
    {dir[x].metadata["last_accessed_at"].iso : x \in DOMAIN dir}
StampsOf(S) ==
    {S.notes[x].mtime : x \in DOMAIN S.notes}
    \cup {S.markdown[x].mtime : x \in DOMAIN S.markdown}
    \cup {S.text[x].mtime : x \in DOMAIN S.text}
    \cup {S.chunks[x].mtime : x \in DOMAIN S.chunks}
    \cup IsoStamps(S.text) \cup MetaStamps(S.index)
Now == [notes |-> notes, markdown |-> markdown, text |-> text,
        chunks |-> chunks, index |-> index]
\* the instants of the clock among them
Clock(S) == {v \in StampsOf(S) : v > 0}
\* the next instant: later than every instant held
Fresh == Cardinality(Clock(Now)) + 1

\* The instants of the clock are only compared and copied, so a state is
\* kept with them numbered 1, 2, ... in their order.
Renumber(S) ==
    LET U == Clock(S)
        r(v) == IF v > 0 THEN Cardinality({u \in U : u <= v}) ELSE v
        meta(m) == [m EXCEPT !["last_accessed_at"] = r(@)]
        json(m) == [m EXCEPT !["last_accessed_at"] = isoformat(r(@.iso))]
    IN  [notes |-> [x \in DOMAIN S.notes |-> [S.notes[x] EXCEPT !.mtime = r(@)]],
         markdown |-> [x \in DOMAIN S.markdown |->
                          [S.markdown[x] EXCEPT !.mtime = r(@)]],
         text |-> [x \in DOMAIN S.text |->
                      [S.text[x] EXCEPT !.mtime = r(@), !.metadata = json(@)]],
         chunks |-> [x \in DOMAIN S.chunks |-> [S.chunks[x] EXCEPT !.mtime = r(@)]],
         index |-> [x \in DOMAIN S.index |-> [S.index[x] EXCEPT !.metadata = meta(@)]]]

Commit(S) ==
    LET R == Renumber(S)
    IN  /\ notes' = R.notes
        /\ markdown' = R.markdown
        /\ text' = R.text
        /\ chunks' = R.chunks
        /\ index' = R.index

\* injective sequences over S of length at most k
SeqsUpTo(S, k) ==
    UNION {{q \in [1..n -> S] : \A i, j \in 1..n : q[i] = q[j] => i = j} : n \in 0..k}
Perms(S) == {q \in [1..Cardinality(S) -> S] : \A i, j \in 1..Cardinality(S) :
                                                  q[i] = q[j] => i = j}

\* what the network can give a line
Outcomes(line) ==
    CASE line.kind # "ref" -> {NoNet}
      [] line.key = "web" -> {[NoNet EXCEPT !.a = x] : x \in {"err", "p1", "p2"}}
      [] line.key = "pdf" -> {[NoNet EXCEPT !.a = x] : x \in {"err", "p1"}}
      [] line.key = "mp3" -> {[NoNet EXCEPT !.a = x] : x \in {"nokey", "err", "p1"}}
      [] line.key = "yt" -> [a : {"err", "p1"}, b : {"err", "p1"}, c : {"err", "p1"}]
      [] OTHER -> {NoNet}
RefLines(lines) == {i \in 1..Len(lines) : lines[i].kind = "ref"}
\* one answer of the network for every reference of the note, while the note
\* is processed
Oracles(lines) ==
    LET refs == {lines[i] : i \in RefLines(lines)}
    IN  {f \in [refs -> [a : {"nokey", "err", "p1", "p2"},
                         b : {"err", "p1"}, c : {"err", "p1"}]] :
            \A l \in refs : f[l] \in Outcomes(l)}

Init ==
    /\ notes = <<>>
    /\ markdown = <<>>
    /\ text = <<>>
    /\ chunks = <<>>
    /\ index = <<>>
    /\ checksums = <<>>
    /\ checksum_file = <<>>
    /\ pc = "idle"
    /\ mode = "scan"
    /\ queue = <<>>
    /\ todo = {}
    /\ pending = {}
    /\ log = <<>>
    /\ ret = "None"
    /\ since = "dirty"
    /\ gone = [n \in NoteFiles |-> "live"]
    /\ cascaded = {}
    /\ edits = 0
    /\ agent = NewAgent
    /\ vs = [pc |-> "idle", calls |-> 0, tries |-> 0, failures |-> 0,
             slept |-> 0, status |-> 0]
    /\ lib = [op |-> "none"]
    /\ stopped = {}

run == <<pc, mode, queue, todo, pending>>

\* the user writes (or touches) a note
WriteNote(n, c) ==
    /\ pc = "idle"
    /\ edits < MaxEdits
    /\ edits' = edits + 1
    /\ Commit([Now EXCEPT !.notes = Put(notes, n, [mtime |-> Fresh, lines |-> c])])
    /\ since' = "dirty"
    /\ gone' = [gone EXCEPT ![n] = "live"]
    /\ cascaded' = cascaded \ {n}
    /\ log' = <<>>
    /\ ret' = "None"
    /\ stopped' = stopped \ {n}
    /\ UNCHANGED <<checksums, checksum_file, run>>
    /\ UNCHANGED <<agent, vs, lib>>

\* the user removes a note
RemoveNote(n) ==
    /\ pc = "idle"
    /\ edits < MaxEdits
    /\ edits' = edits + 1
    /\ n \in DOMAIN notes
    /\ Commit([Now EXCEPT !.notes = Drop(notes, n)])
    /\ since' = "dirty"
    /\ gone' = [gone EXCEPT ![n] = "removed"]
    /\ log' = <<>>
    /\ ret' = "None"
    /\ stopped' = stopped \ {n}
    /\ UNCHANGED <<checksums, checksum_file, run, cascaded>>
    /\ UNCHANGED <<agent, vs, lib>>

\* what the completion of a stage means for the bookkeeping
SinceAfter(stage, m) ==
    CASE m = "scan" /\ stage = "md" /\ since = "dirty" -> "md"
      [] m = "scan" /\ stage = "txt" /\ since = "md" -> "full"
      [] OTHER -> since
\* a removed note is done with once the markdown stage and then the chunk
\* stage, run the same way m, have been given it
GoneAfter(stage, m, done) ==
    [n \in NoteFiles |->
        IF n \in done /\ stage = "md" /\ gone[n] = "removed" THEN "md-" \o m
        ELSE IF n \in done /\ stage = "txt" /\ gone[n] = "md-" \o m THEN "txt"
        ELSE gone[n]]

Names(q) == {q[i] : i \in 1..Len(q)}

\* a run that is given nothing ends at once
Begin(stage, m, names, given) ==
    /\ mode' = m
    /\ log' = <<>>
    /\ ret' = "None"
    /\ IF names = {} 
       THEN /\ pc' = "idle" /\ todo' = {} /\ queue' = <<>> /\ pending' = {}
            /\ since' = SinceAfter(stage, m)
            /\ gone' = GoneAfter(stage, m, given)
       ELSE /\ pc' = stage /\ pending' = given
            /\ UNCHANGED <<since, gone>>

\* transform_md.main(in_dir, out_dir): the checksum store is loaded, then
\* process_md_file is called for every entry of the directory
StartMdScan ==
    /\ pc = "idle"
    /\ Begin("md", "scan", DOMAIN notes, NoteFiles)
    /\ todo' = DOMAIN notes /\ queue' = <<>>
    /\ checksums' = load_checksums(checksum_file)
    /\ UNCHANGED <<notes, markdown, text, chunks, index, checksum_file, cascaded,
                   edits>>
    /\ UNCHANGED <<agent, vs, lib, stopped>>

\* transform_md.main("-", out_dir): ... for every file name read from stdin
StartMdStream(names) ==
    /\ pc = "idle"
    /\ names # <<>>
    /\ Begin("md", "stream", Names(names), Names(names))
    /\ todo' = {} /\ queue' = names
    /\ checksums' = load_checksums(checksum_file)
    /\ UNCHANGED <<notes, markdown, text, chunks, index, checksum_file, cascaded,
                   edits>>
    /\ UNCHANGED <<agent, vs, lib, stopped>>

\* the name the running loop handles next, and what is left after it
NextNames == IF mode = "scan" THEN todo ELSE {Head(queue)}
Left(fname) == IF mode = "scan" THEN todo \ {fname} ELSE Names(Tail(queue))

\* the loop goes on, ends, or is left by an exception
Advance(stage, fname, res) ==
    IF res = "raise"
    THEN /\ pc' = "idle" /\ todo' = {} /\ queue' = <<>> /\ pending' = {}
         /\ stopped' = IF stage = "md" /\ fname \in DOMAIN notes
                        THEN stopped \cup {fname} ELSE stopped
         /\ UNCHANGED <<mode, since, gone>>
    ELSE /\ stopped' = IF stage = "md" /\ res = "True"
                        THEN stopped \ {fname} ELSE stopped
         /\ IF Left(fname) = {}
            THEN /\ pc' = "idle" /\ todo' = {} /\ queue' = <<>> /\ pending' = {}
                 /\ since' = SinceAfter(stage, mode)
                 /\ gone' = GoneAfter(stage, mode, pending)
                 /\ UNCHANGED mode
            ELSE /\ IF mode = "scan" THEN todo' = todo \ {fname} /\ UNCHANGED queue
                                     ELSE queue' = Tail(queue) /\ UNCHANGED todo
                 /\ UNCHANGED <<pc, mode, pending, since, gone>>

\* one call of process_md_file by the loop of transform_md.main
MdStep ==
    /\ pc = "md"
    /\ \E fname \in NextNames :
       \E orc \in Oracles(IF fname \in DOMAIN notes THEN notes[fname].lines ELSE <<>>) :
       \E hnames \in Perms(GlobFragments([markdown |-> markdown], DropLast(fname, 3))) :
          LET w0 == [markdown |-> markdown, text |-> text, checksums |-> checksums,
                     checksum_file |-> checksum_file,
                     log |-> <<Ev("call", "process_md_file", fname)>>]
              r == process_md_file(w0, fname, Fresh, orc, hnames)
          IN  /\ Commit([Now EXCEPT !.markdown = r.w.markdown, !.text = r.w.text])
              /\ checksums' = r.w.checksums
              /\ checksum_file' = r.w.checksum_file
              /\ log' = r.w.log
              /\ ret' = r.res
              /\ Advance("md", fname, r.res)
    /\ UNCHANGED <<cascaded, edits>>
    /\ UNCHANGED <<agent, vs, lib>>

\* transform_txt.main(in_dir, out_dir) over the entries of out_dir/Text
StartTxtScan ==
    /\ pc = "idle"
    /\ Begin("txt", "scan", DOMAIN text, NoteFiles)
    /\ todo' = DOMAIN text /\ queue' = <<>>
    /\ UNCHANGED <<notes, markdown, text, chunks, index, checksums, checksum_file,
                   cascaded, edits>>
    /\ UNCHANGED <<agent, vs, lib, stopped>>

\* transform_txt.main("-", out_dir)
StartTxtStream(names) ==
    /\ pc = "idle"
    /\ names # <<>>
    /\ Begin("txt", "stream", Names(names),
             {n \in NoteFiles : ArtifactOf(n) \in Names(names)})
    /\ todo' = {} /\ queue' = names
    /\ UNCHANGED <<notes, markdown, text, chunks, index, checksums, checksum_file,
                   cascaded, edits>>
    /\ UNCHANGED <<agent, vs, lib, stopped>>

\* one call of process_file by the loop of transform_txt.main
TxtCall(upsert) ==
    /\ pc = "txt"
    /\ \E fname \in NextNames :
          LET w0 == [chunks |-> chunks, index |-> index,
                     log |-> <<Ev("call", "process_file", fname)>>]
              r == process_file(w0, fname, upsert)
          IN  /\ Commit([Now EXCEPT !.chunks = r.w.chunks, !.index = r.w.index])
              /\ log' = r.w.log
              /\ ret' = r.res
              /\ cascaded' = IF fname \notin DOMAIN text /\ r.res # "raise"
                             THEN cascaded \cup {n \in NoteFiles \ DOMAIN notes :
                                                    ArtifactOf(n) = fname}
                             ELSE cascaded
              /\ Advance("txt", fname, r.res)
    /\ UNCHANGED <<checksums, checksum_file, edits>>
    /\ UNCHANGED <<agent, vs, lib>>
\* the call with a vector store that answers
TxtStep == TxtCall("ok")
\* the call with a vector store that fails when it is given the records
TxtStepUpsertFails == TxtCall("raise")

-----------------------------------------------------------------------------
(* Direct calls of has_file_changed and save_content, outside of a run.    *)

\* checksum_store.has_file_changed(fname) on an existing file
CallHasFileChanged(n) ==
    /\ pc = "idle"
    /\ n \in DOMAIN notes
    /\ LET w0 == [checksums |-> checksums, checksum_file |-> checksum_file,
                  log |-> <<Ev("call", "has_file_changed", n)>>]
           r == has_file_changed(w0, n, notes[n].lines)
       IN  /\ checksums' = r.w.checksums
           /\ checksum_file' = r.w.checksum_file
           /\ log' = r.w.log
           /\ ret' = r.res
    /\ UNCHANGED <<notes, markdown, text, chunks, index, run, since, gone,
                   cascaded, edits>>
    /\ UNCHANGED <<agent, vs, lib, stopped>>

\* save_content(file_path, text, **metadata); the arguments are logged
CallSaveContent(file_path, content, typ) ==
    /\ pc = "idle"
    /\ LET metadata == [type |-> <<typ>>, last_accessed_at |-> Fresh]
           w0 == [text |-> text,
                  log |-> <<Ev("call", "save_content", file_path),
                            Ev("arg", content, typ)>>]
           r == save_content(w0, file_path, content, TRUE, metadata, Fresh)
       IN  /\ Commit([Now EXCEPT !.text = r.w.text])
           /\ log' = r.w.log
           /\ ret' = IF r.res THEN "True" ELSE "False"
    /\ UNCHANGED <<checksums, checksum_file, run, since, gone, cascaded, edits>>
    /\ UNCHANGED <<agent, vs, lib, stopped>>

-----------------------------------------------------------------------------
OneNote == {<<"a">> \o MdExt}
ArtifactsOf(N) == {ArtifactOf(n) : n \in N}

\* one note, both ways of running the two stages
Next ==
    \/ \E n \in OneNote, c \in Contents : WriteNote(n, c)
    \/ \E n \in OneNote : RemoveNote(n)
    \/ StartMdScan
    \/ \E names \in SeqsUpTo(OneNote, MaxStream) : StartMdStream(names)
    \/ MdStep
    \/ StartTxtScan
    \/ \E names \in SeqsUpTo(DOMAIN text \cup ArtifactsOf(OneNote), MaxStream) :
          StartTxtStream(names)
    \/ TxtStep

Spec == Init /\ [][Next]_vars

\* one note of every kind of content, the stages scanning the directories
NextScan ==
    \/ \E n \in OneNote, c \in ScanContents : edits < MaxScanEdits /\ WriteNote(n, c)
    \/ \E n \in OneNote : edits < MaxScanEdits /\ RemoveNote(n)
    \/ StartMdScan
    \/ MdStep
    \/ StartTxtScan
    \/ TxtStep

SpecScan == Init /\ [][NextScan]_vars

\* one note, the stages scanning the directories, a vector store that can fail
NextUpsert ==
    \/ \E n \in OneNote, c \in Contents : edits < MaxScanEdits /\ WriteNote(n, c)
    \/ StartMdScan
    \/ MdStep
    \/ StartTxtScan
    \/ TxtStep
    \/ TxtStepUpsertFails

SpecUpsert == Init /\ [][NextUpsert]_vars

\* two notes, one basename a prefix of the other, the stages fed with names
NextTwo ==
    \/ \E n \in TwoNotes, c \in SharedContents : WriteNote(n, c)
    \/ \E n \in TwoNotes : RemoveNote(n)
    \/ \E names \in SeqsUpTo(TwoNotes, MaxStream) : StartMdStream(names)
    \/ MdStep
    \/ \E names \in SeqsUpTo(DOMAIN text \cup ArtifactsOf(TwoNotes), MaxStream) :
          StartTxtStream(names)
    \/ TxtStep

SpecTwo == Init /\ [][NextTwo]_vars

\* the library functions called directly
NextUnit ==
    \/ \E n \in OneNote, c \in BlockContents : WriteNote(n, c)
    \/ \E n \in OneNote : CallHasFileChanged(n)
    \/ \E f \in ArtifactsOf(OneNote), c \in {<<Txt("t1")>>, <<Txt("t2")>>},
          typ \in {"notes", "web"} : CallSaveContent(f, c, typ)

SpecUnit == Init /\ [][NextUnit]_vars

\* a journal, written, split in days and removed
NextHist ==
    \/ \E c \in HistContents : WriteNote(Journal, c)
    \/ RemoveNote(Journal)
    \/ StartMdScan
    \/ StartMdStream(<<Journal>>)
    \/ MdStep
    \/ StartTxtScan
    \/ TxtStep

SpecHist == Init /\ [][NextHist]_vars

\* what the two journals hold: one day, or no day at all
DayContents ==
    { <<Heading("##", "06 Jan 2024"), Txt("t1")>>, <<Txt("t1"), Blank>> }

\* two journals, written, split in days and removed
NextJournals ==
    \/ \E n \in {Journal, Journal2}, c \in DayContents : WriteNote(n, c)
    \/ \E n \in {Journal, Journal2} : RemoveNote(n)
    \/ StartMdScan
    \/ \E n \in {Journal, Journal2} : StartMdStream(<<n>>)
    \/ MdStep

SpecJournals == Init /\ [][NextJournals]_vars

\* the text of the notes given in batches
BatchContents == { <<Txt("t1"), Blank>>, <<Latin1("t1"), Blank>> }

\* two notes, the stages fed with lists of several names
NextBatch ==
    \/ \E n \in TwoNotes, c \in BatchContents : edits < MaxBatchEdits /\ WriteNote(n, c)
    \/ \E n \in TwoNotes : edits < MaxBatchEdits /\ RemoveNote(n)
    \/ \E names \in SeqsUpTo(TwoNotes, MaxBatch) : StartMdStream(names)
    \/ MdStep
    \/ \E names \in SeqsUpTo(ArtifactsOf(TwoNotes), MaxBatch) : StartTxtStream(names)
    \/ TxtStep

SpecBatch == Init /\ [][NextBatch]_vars

\* notes with a PDF reference followed by other lines
LineContents ==
    { <<Txt("t1"), Ref("pdf", "u2"), Ref("web", "u1"), Blank>>,
      <<Txt("t2"), Ref("pdf", "u2"), Ref("web", "u1")>>,
      <<Txt("t1"), Blank>> }

\* one note, the markdown stage scanning the directory
NextLines ==
    \/ \E n \in OneNote, c \in LineContents : WriteNote(n, c)
    \/ \E n \in OneNote : RemoveNote(n)
    \/ StartMdScan
    \/ MdStep

SpecLines == Init /\ [][NextLines]_vars

-----------------------------------------------------------------------------
(* Questions put to one Agent, and direct calls of the filter builders.    *)

Questions == {"q1", "q2"}
Intents ==
    {Extracted("raise", NoObj), Extracted("none", NoObj)}
    \cup {Extracted("ok", [NoObj EXCEPT !.intent = l]) :
             l \in {"regular question", "activity report request",
                    "Activity Report Request", "summary request"}}
Periods ==
    {Extracted("raise", NoObj), Extracted("none", NoObj),
     Extracted("ok", [NoObj EXCEPT !.start_date = 10, !.end_date = 12])}
DocumentNames == {<<>>, <<"work">>, <<"work", "home">>, <<"work", "home", "work">>}
Documents ==
    {Extracted("raise", NoObj), Extracted("none", NoObj)}
    \cup {Extracted("ok", [NoObj EXCEPT !.document_names = d]) : d \in DocumentNames}
StepBacks == {Extracted("raise", NoObj), Extracted("ok", NoObj)}
Extractions == [intent : Intents, period : Periods, docs : Documents, step : StepBacks]

\* Agent.question(user_question) up to the response of _get_response
Ask(q, o) ==
    /\ agent.asked < MaxQuestions
    /\ agent' = [_get_response([agent EXCEPT !.retrievals = <<>>, !.route = "none"], q, o)
                    EXCEPT !.asked = @ + 1, !.question = q, !.given = <<o>>,
                           !.args = <<>>,
                           !.built = NoFilter]
    /\ UNCHANGED <<notes, markdown, text, chunks, index, checksums, checksum_file,
                   pc, mode, queue, todo, pending, log, ret, since, gone, cascaded,
                   edits, vs, lib, stopped>>

\* the conditions a caller gives _build_filter
Items ==
    {Cond("type", "", Str("history")), Cond("domain", "", Str("work")),
     Cond("referer", "", Str("a")), Cond("type", "", Str("notes"))}
\* the keys of a dict differ
DistinctKeys(items) ==
    \A i, j \in 1..Len(items) : items[i].key = items[j].key => i = j
Metadatas ==
    {[none |-> TRUE, items |-> <<>>]}
    \cup {[none |-> FALSE, items |-> q] :
             q \in {x \in SeqsUpTo(Items, MaxConds) : DistinctKeys(x)}}
CallBuildFilter(metadata) ==
    /\ agent' = [agent EXCEPT !.built = _build_filter(metadata),
                              !.args = metadata.items, !.route = "build",
                              !.res = "ok", !.retrievals = <<>>,
                              !.given = <<>>, !.question = ""]
    /\ UNCHANGED <<notes, markdown, text, chunks, index, checksums, checksum_file,
                   pc, mode, queue, todo, pending, log, ret, since, gone, cascaded,
                   edits, vs, lib, stopped>>

\* the command-line arguments after the query
Args == {<<"t", "=", "h">>, <<"d", "=", "a", "=", "b">>, <<"x">>}
CallSplitFilter(args) ==
    /\ agent' = [agent EXCEPT !.built = split_filter(args).filter,
                              !.args = args, !.route = "split",
                              !.res = IF split_filter(args).ok THEN "ok" ELSE "raise",
                              !.retrievals = <<>>, !.given = <<>>,
                              !.question = ""]
    /\ UNCHANGED <<notes, markdown, text, chunks, index, checksums, checksum_file,
                   pc, mode, queue, todo, pending, log, ret, since, gone, cascaded,
                   edits, vs, lib, stopped>>

NextAgent ==
    \/ \E q \in Questions, o \in Extractions : Ask(q, o)
    \/ \E metadata \in Metadatas : CallBuildFilter(metadata)
    \/ \E args \in SeqsUpTo(Args, MaxConds) : CallSplitFilter(args)

SpecAgent == Init /\ [][NextAgent]_vars

-----------------------------------------------------------------------------
(* lib.get_vectorstore, a step at a time.  vs.pc is "idle" before the      *)
(* first call, "loop" at the test of the while, "sleep" in the handler of  *)
(* a failed try, "returned" after the return, "exit" after sys.exit(1) and *)
(* "raised" when an exception has left the function.                       *)

Unrelated == <<notes, markdown, text, chunks, index, checksums, checksum_file,
               pc, mode, queue, todo, pending, log, ret, since, gone, cascaded,
               edits, agent, lib, stopped>>

\* the call, up to tries = 0: chromadb.HttpClient(...) is made before the
\* loop and outside of any try; a client that checks its server when it is
\* made raises when the server cannot be reached
CallGetVectorstore(outcome) ==
    /\ vs.pc \in {"idle", "returned"}
    /\ vs.calls < MaxCalls
    /\ vs' = [pc |-> IF outcome = "ok" THEN "loop" ELSE "raised",
              calls |-> vs.calls + 1, tries |-> 0,
              failures |-> IF outcome = "ok" THEN 0 ELSE 1,
              slept |-> 0, status |-> IF outcome = "ok" THEN 0 ELSE 1]
    /\ UNCHANGED Unrelated

\* one turn of the while: Chroma(...) and the count of the collection
Attempt(outcome) ==
    /\ vs.pc = "loop"
    /\ vs.tries < MAX_TRIES
    /\ vs' = IF outcome = "ok"
             THEN [vs EXCEPT !.tries = @ + 1, !.pc = "returned"]
             ELSE [vs EXCEPT !.tries = @ + 1, !.failures = @ + 1, !.pc = "sleep"]
    /\ UNCHANGED Unrelated

\* time.sleep(5); continue
Sleep ==
    /\ vs.pc = "sleep"
    /\ vs' = [vs EXCEPT !.slept = @ + RETRY_DELAY, !.pc = "loop"]
    /\ UNCHANGED Unrelated

\* the else of the while: sys.exit(1)
GiveUp ==
    /\ vs.pc = "loop"
    /\ ~(vs.tries < MAX_TRIES)
    /\ vs' = [vs EXCEPT !.pc = "exit", !.status = 1]
    /\ UNCHANGED Unrelated

NextConnect ==
    \/ \E outcome \in {"ok", "raise"} : CallGetVectorstore(outcome)
    \/ \E outcome \in {"ok", "raise"} : Attempt(outcome)
    \/ Sleep
    \/ GiveUp

SpecConnect == Init /\ [][NextConnect]_vars

-----------------------------------------------------------------------------
(* Direct calls of the functions of lib.py that take part in no run: the   *)
(* JSON encoder and decoder of the metadata, and cleanup_text.  A text is   *)
(* a sequence of tokens: words, '#', a space, a newline, a URL.  The        *)
(* functions keep no state: a behaviour makes one call.                     *)

MaxTextLen == 3
URL == "http://u"
StopWords == {"the", "les"}
TextTokens == StopWords \cup {"w", "#", " ", "\n", URL}
IsSpace(c) == c \in {" ", "\n"}

\* the length of the run of c that t starts with
RECURSIVE RunLen(_, _)
RunLen(t, c) == IF t = <<>> \/ t[1] # c THEN 0 ELSE 1 + RunLen(Tail(t), c)
\* what is left of t after the \S+ a URL goes on with
RECURSIVE SkipNonSpace(_)
SkipNonSpace(t) ==
    IF t = <<>> \/ IsSpace(t[1]) THEN t ELSE SkipNonSpace(Tail(t))
\* re.sub(r"https?://\S+", "", text)
RECURSIVE RemoveUrls(_)
RemoveUrls(t) ==
    IF t = <<>> THEN <<>>
    ELSE IF t[1] = URL THEN RemoveUrls(SkipNonSpace(Tail(t)))
    ELSE <<t[1]>> \o RemoveUrls(Tail(t))
\* re.sub(r"^[ \t]+$", "", text, flags=re.M)
RECURSIVE EmptyBlankLines(_, _)
EmptyBlankLines(t, at_start) ==
    IF t = <<>> THEN <<>>
    ELSE IF at_start /\ t[1] = " "
    THEN LET n == RunLen(t, " ")
             rest == SubSeq(t, n + 1, Len(t))
         IN  IF rest = <<>> \/ rest[1] = "\n"
             THEN EmptyBlankLines(rest, FALSE)
             ELSE SubSeq(t, 1, n) \o EmptyBlankLines(rest, FALSE)
    ELSE <<t[1]>> \o EmptyBlankLines(Tail(t), t[1] = "\n")
\* re.sub of the runs of at least least copies of c by most copies
RECURSIVE SquashRuns(_, _, _, _)
SquashRuns(t, c, least, most) ==
    IF t = <<>> THEN <<>>
    ELSE IF t[1] = c
    THEN LET n == RunLen(t, c)
         IN  [i \in 1..(IF n >= least THEN most ELSE n) |-> c]
             \o SquashRuns(SubSeq(t, n + 1, Len(t)), c, least, most)
    ELSE <<t[1]>> \o SquashRuns(Tail(t), c, least, most)

cleanup_text(t) ==
    LET t1 == RemoveUrls(t)
        t2 == SelectSeq(t1, LAMBDA c : c # "#")
        t3 == EmptyBlankLines(t2, TRUE)
        t4 == SquashRuns(t3, " ", 2, 1)
    IN  SquashRuns(t4, "\n", 3, 2)

RECURSIVE TextsOf(_)
TextsOf(n) ==
    IF n = 0 THEN {<<>>}
    ELSE LET shorter == TextsOf(n - 1)
         IN  shorter \cup {Append(t, c) : t \in shorter, c \in TextTokens}
CallCleanupText(t) ==
    /\ lib.op = "none"
    /\ lib' = [op |-> "cleanup_text", text |-> t, res |-> cleanup_text(t)]
    /\ UNCHANGED <<notes, markdown, text, chunks, index, checksums,
                   checksum_file, pc, mode, queue, todo, pending, log, ret,
                   since, gone, cascaded, edits, agent, vs, stopped>>

\* the metadata objects of the calls: datetimes under the keys of
\* DateTimeKeys, strings (one of them an ISO date) under the others
CodecObjects ==
    {dates @@ strings :
        dates \in UNION {[K -> {1, -20}] :
                            K \in SUBSET {"created_at", "start_date", "timestamp"}},
        strings \in UNION {[K -> {<<"2024-01-05">>, <<"x">>}] :
                              K \in SUBSET {"date", "title"}}}
\* json.loads(json.dumps(obj, cls=DateTimeEncoder), object_hook=datetime_decoder)
CallCodec(obj) ==
    /\ lib.op = "none"
    /\ lib' = [op |-> "json", obj |-> obj,
               dumped |-> DateTimeEncoder(obj),
               loaded |-> datetime_decoder(DateTimeEncoder(obj))]
    /\ UNCHANGED <<notes, markdown, text, chunks, index, checksums,
                   checksum_file, pc, mode, queue, todo, pending, log, ret,
                   since, gone, cascaded, edits, agent, vs, stopped>>

NextLib ==
    \/ \E t \in TextsOf(MaxTextLen) : CallCleanupText(t)
    \/ \E obj \in CodecObjects : CallCodec(obj)
SpecLib == Init /\ [][NextLib]_vars

-----------------------------------------------------------------------------
(* Properties *)

\* the log is that of the call f(x)
Called(l, f, x) == l # <<>> /\ l[1] = Ev("call", f, x)
\* the names of the events of l whose operation is op, in order
NamesOf(l, op) ==
    LET T(e) == e.op = op
        sel == SelectSeq(l, T)
    IN  [i \in 1..Len(sel) |-> sel[i].name]
\* operations that change a directory, the checksum file or the vector store
EffectOps == {"write", "remove", "store", "add", "delete"}
Effects(l) ==
    LET T(e) == e.op \in EffectOps
    IN  SelectSeq(l, T)
\* int(s) of a string of digits, -1 for any other string
RECURSIVE ParseInt(_)
ParseInt(s) ==
    IF s = <<>> THEN 0
    ELSE LET d == {i \in 1..10 : DigitChars[i] = s[Len(s)]}
             rest == ParseInt(DropLast(s, 1))
         IN  IF d = {} \/ rest < 0 THEN -1
             ELSE 10 * rest + (CHOOSE i \in d : TRUE) - 1
\* the index records and chunk files derived from note n
BaseOf(n) == DropLast(n, 3)
DerivedRecords(n) ==
    {id \in DOMAIN index :
        \/ index[id].metadata["main_source"] = TextPath(ArtifactOf(n))
        \/ index[id].metadata["referer"] = BaseOf(n)}
OwnChunkFiles(n) ==
    {c \in DOMAIN chunks : \E k \in 1..9 : c = ChunkId(BaseOf(n), k)}

\* C1, as stated: once a note is removed and the markdown stage and then the
\* chunk stage have run again over it (scanning the directories or fed with
\* its name), no index record has the note's artifact as main_source or the
\* note as referer and no chunk file of the note is left.
C1_RemovedNoteLeavesNothing ==
    \A n \in NoteFiles :
        gone[n] = "txt" => DerivedRecords(n) = {} /\ OwnChunkFiles(n) = {}

\* C2, as stated: process_file on an artifact path that no longer exists
\* deletes exactly the index records whose main_source is the path or whose
\* referer is the basename of the note, and the chunk file of each of them.
C2_DeletesExactlyRelated ==
    [][\A fname \in ArtifactsOf(NoteFiles) :
          (Called(log', "process_file", fname) /\ fname \notin DOMAIN text)
          => LET ids == RelatedIds([index |-> index], fname, DropLast(fname, 5))
             IN  /\ DOMAIN index' = DOMAIN index \ ids
                 /\ DOMAIN chunks' = DOMAIN chunks \ ids]_vars

\* C3, as stated: after a removed note's cascading delete has run, no index
\* record derived from the note (its own chunks, and the chunks of artifacts
\* fetched for it) and no chunk file of it exists, whatever runs afterwards.
C3_NothingComesBack ==
    \A n \in cascaded : DerivedRecords(n) = {} /\ OwnChunkFiles(n) = {}

\* C4: once the markdown stage and then the chunk stage have scanned the
\* directories since the last change of the source directory, every further
\* step of a scanning run writes or removes no Markdown, Text or Chunk file,
\* does not write the checksum file and adds or deletes no index record.
C4_SecondRunWritesNothing ==
    [][(since = "full" /\ since' = "full")
       => /\ Effects(log') = <<>>
          /\ markdown' = markdown /\ text' = text /\ chunks' = chunks
          /\ index' = index /\ checksum_file' = checksum_file]_vars
\* a step of a later run, taken over an indexed artifact
C4_Witness ==
    /\ since = "full" /\ pc = "txt" /\ index # <<>>
    /\ \E f \in DOMAIN text : Called(log, "process_file", f)

\* C5: has_file_changed returns None and records the checksum the first time
\* a path is seen; later it returns True and replaces the stored checksum
\* exactly when the computed checksum differs from the stored one, and
\* returns False and leaves the store as it is otherwise.
C5_HasFileChanged ==
    [][\A n \in DOMAIN notes :
          Called(log', "has_file_changed", n)
          => LET sum == compute_checksum(notes[n].lines)
                 recorded == /\ checksums' = Put(checksums, n, sum)
                             /\ checksum_file' = checksums'
             IN  IF n \notin DOMAIN checksums THEN ret' = "None" /\ recorded
                 ELSE IF checksums[n] # sum THEN ret' = "True" /\ recorded
                 ELSE /\ ret' = "False"
                      /\ UNCHANGED <<checksums, checksum_file>>]_vars
\* a changed file has been reported and the stored checksum replaced
C5_Witness ==
    \E n \in DOMAIN notes :
        /\ Called(log, "has_file_changed", n) /\ ret = "True"
        /\ checksum_file[n] = compute_checksum(notes[n].lines)

\* C6, as stated: the checksum recorded for a file is that of no content
\* that differs from the file's anywhere, be it only after the first block,
\* so that has_file_changed reports every modification.
C6_WholeContentHashed ==
    \A n \in DOMAIN notes :
        Called(log, "has_file_changed", n)
        => \A c \in BlockContents :
              c # notes[n].lines => compute_checksum(c) # checksums[n]

\* C7, as stated: a URL whose artifact another note has already fetched is
\* not fetched again when a second note refers to it.
C7_FetchedOnce ==
    [][\A n \in NoteFiles : \A i \in 1..Len(log') :
          (Called(log', "process_md_file", n) /\ log'[i].op = "fetch"
           /\ log'[i].name \in DOMAIN text)
          => text[log'[i].name].metadata["referer"] = BaseOf(n)]_vars

\* C8: save_content returns False and leaves the file as it is when the file
\* holds the text it is given; otherwise it returns True and the file holds
\* the text and the metadata it is given.
C8_SaveContent ==
    [][\A f \in ArtifactsOf(OneNote) :
          Called(log', "save_content", f)
          => LET content == log'[2].dir
                 typ == log'[2].name
             IN  IF f \in DOMAIN text /\ text[f].text = content
                 THEN /\ ret' = "False"
                      /\ text' = text
                      /\ NamesOf(log', "write") = <<>>
                 ELSE /\ ret' = "True"
                      /\ f \in DOMAIN text'
                      /\ text'[f].text = content
                      /\ text'[f].metadata["type"] = <<typ>>
                      /\ text'[f].metadata["last_accessed_at"]
                            = isoformat(text'[f].mtime)
                      /\ NamesOf(log', "write") = <<f>>]_vars
\* the short cut was taken over a file written with other metadata
C8_Witness ==
    \E f \in DOMAIN text :
        /\ Called(log, "save_content", f) /\ ret = "False"
        /\ text[f].metadata["type"] # <<log[2].name>>

\* the artifacts of the references a note holds
RefArtifacts(lines) ==
    {get_output_file_path(IF lines[i].key = "yt" THEN VideoId(lines[i])
                          ELSE Md5Hex(UrlOf(lines[i]))) : i \in RefLines(lines)}
\* C9, as stated: once process_md_file has processed a note, the note's
\* artifact and the artifacts of the references it holds carry
\* last_accessed_at = the note's modification time, the latter the note as
\* referer, and the note's artifact the note's header fields.
C9_CurrentMetadata ==
    \A n \in DOMAIN notes :
        (Called(log, "process_md_file", n) /\ ret = "True")
        => /\ \A f \in DOMAIN text \cap ({ArtifactOf(n)} \cup RefArtifacts(notes[n].lines)) :
                 /\ text[f].metadata["last_accessed_at"] = isoformat(notes[n].mtime)
                 /\ f # ArtifactOf(n) => text[f].metadata["referer"] = BaseOf(n)
           /\ ArtifactOf(n) \in DOMAIN text
              => LET header == get_metadata(notes[n].lines).metadata
                 IN  \A k \in DOMAIN header :
                        Get(text[ArtifactOf(n)].metadata, k, <<>>) = header[k]

\* the chunk ids process_file gave the vector store, in order
AddedIds == NamesOf(log, "add")
\* C10: the ids process_file gives for an artifact are as many as the chunks
\* split_text cuts from its text, and the i-th is the artifact's basename,
\* "-", i written with four digits, and ".txt": the text decides the ids.
C10_ChunkIds ==
    \A fname \in DOMAIN text :
        (Called(log, "process_file", fname) /\ AddedIds # <<>>)
        => /\ Len(AddedIds) = Len(split_text(text[fname].text))
           /\ \A i \in 1..Len(AddedIds) :
                 LET id == AddedIds[i]
                     basename == DropLast(fname, 5)
                     stem == DropLast(id, 4)
                 IN  /\ EndsWith(id, TxtExt)
                     /\ Len(stem) = Len(basename) + 5
                     /\ StartsWith(stem, basename \o <<"-">>)
                     /\ ParseInt(SubSeq(stem, Len(basename) + 2, Len(stem))) = i
\* an artifact was cut in several chunks
C10_Witness ==
    \E fname \in DOMAIN text :
        Called(log, "process_file", fname) /\ Len(AddedIds) >= 2
\* C10, as stated: each id is the artifact's basename, "-" and the four-digit
\* sequence number, and nothing more.
C10_IdsWithoutSuffix ==
    \A fname \in DOMAIN text :
        Called(log, "process_file", fname)
        => \A i \in 1..Len(AddedIds) :
              LET id == AddedIds[i]
                  basename == DropLast(fname, 5)
              IN  /\ Len(id) = Len(basename) + 5
                  /\ StartsWith(id, basename \o <<"-">>)
                  /\ ParseInt(SubSeq(id, Len(basename) + 2, Len(id))) = i

\* the index records whose main_source is the artifact fname
RecordsOf(fname) ==
    {id \in DOMAIN index : index[id].metadata["main_source"] = TextPath(fname)}
\* C11, as stated: once process_file has chunked an artifact, the index
\* records whose main_source is that artifact are exactly the chunks of its
\* current text: none of an older, longer version is left.
C11_OnlyCurrentChunks ==
    \A fname \in DOMAIN text :
        (Called(log, "process_file", fname) /\ AddedIds # <<>>)
        => RecordsOf(fname)
             = {ChunkId(DropLast(fname, 5), i) :
                    i \in 1..Len(split_text(text[fname].text))}

\* C12, as stated: while a stage works through the names it was given and a
\* note that exists is still to come after the current one, the stage goes on
\* to the next name, whatever happens with the current one.
C12_BatchGoesOn ==
    [][(/\ pc \in {"md", "txt"}
        /\ mode = "stream"
        /\ Len(queue) > 1
        /\ \E i \in 2..Len(queue) :
              queue[i] \in DOMAIN notes \cup DOMAIN text)
       => (pc' = pc /\ queue' = Tail(queue))]_vars

\* the fragment files and the artifacts that carry the basename of note n
LeftOf(n, dir) == {h \in DOMAIN dir : StartsWith(h, BaseOf(n))}
\* C13, as stated, for a deleted note whose artifact exists: process_md_file
\* returns without raising, and afterwards neither the artifact nor any
\* fragment file or fragment artifact of the note is left.
C13_DeletedNoteCleaned ==
    [][\A n \in NoteFiles :
          (/\ Called(log', "process_md_file", n)
           /\ n \notin DOMAIN notes
           /\ ArtifactOf(n) \in DOMAIN text)
          => /\ ret' = "True"
             /\ LeftOf(n, markdown') = {}
             /\ LeftOf(n, text') = {}]_vars

\* C14, as stated: once process_md_file has been called on a note whose
\* bytes are not valid UTF-8, no exception has left it and the note's
\* artifact exists.
C14_Latin1NoteProcessed ==
    \A n \in DOMAIN notes :
        (Called(log, "process_md_file", n) /\ ~Utf8Valid(notes[n].lines))
        => (ret # "raise" /\ ArtifactOf(n) \in DOMAIN text)

\* the artifact of the reference on a line
PathOf(line) == get_output_file_path(Md5Hex(UrlOf(line)))
\* the i-th event of l is a fetch of a PDF that gave nothing: no copy to
\* Orig/ follows it
FailedPdfFetch(l, i) ==
    /\ l[i].op = "fetch" /\ l[i].dir = "pdf"
    /\ (i < Len(l) => ~(l[i + 1].op = "write" /\ l[i + 1].dir = "Orig"))
\* C15: when process_md_file fetches the PDF of a line and the fetch fails,
\* no artifact exists for that URL afterwards and every web reference on a
\* later line of the note is fetched after it.
C15_FailedPdfSkipped ==
    [][\A n \in DOMAIN notes : \A i \in 1..Len(log') :
          (Called(log', "process_md_file", n) /\ FailedPdfFetch(log', i))
          => /\ log'[i].name \notin DOMAIN text'
             /\ \A p \in RefLines(notes[n].lines) :
                   \A q \in RefLines(notes[n].lines) :
                      (/\ PathOf(notes[n].lines[p]) = log'[i].name
                       /\ q > p
                       /\ notes[n].lines[q].key = "web")
                      => \E k \in (i + 1)..Len(log') :
                            log'[k] = Ev("fetch", "web", PathOf(notes[n].lines[q]))]_vars
\* a PDF could not be fetched and the web page of the next line was
C15_Witness ==
    \E i \in 1..Len(log) :
        /\ FailedPdfFetch(log, i)
        /\ i < Len(log)
        /\ log[i + 1].op = "fetch" /\ log[i + 1].dir = "web"
        /\ log[i].name \notin DOMAIN text


-----------------------------------------------------------------------------
(* The answers of the Agent *)

\* what the last question was given by the extractors
Given == agent.given[1]
\* the filter of the retrieval the last question made
Retrieved == agent.retrievals[1].filter
\* the conditions of a filter, those of its combinators' children included
CondsOf(f) ==
    IF f.node = "cond" THEN {f}
    ELSE UNION {IF f.children[i].node = "cond" THEN {f.children[i]}
                ELSE {f.children[i].children[j] : j \in 1..Len(f.children[i].children)}
                : i \in 1..Len(f.children)}
KeysOf(f) == {c.key : c \in CondsOf(f)}

\* C16: an activity-report query never fails because an extraction returned
\* nothing usable: when the period extraction or the document-name
\* extraction yields no result (and no call of the model raises), the query
\* still runs, with the corresponding filter condition left out.
C16_ActivityReportRuns ==
    (/\ agent.route = "activity"
     /\ Given.period.kind \in {"none", "ok"}
     /\ Given.docs.kind \in {"none", "ok"}
     /\ Given.period.kind = "none" \/ Given.docs.kind = "none")
    => /\ agent.res = "ok"
       /\ Len(agent.retrievals) = 1
       /\ Given.period.kind = "none" => "last_accessed_at" \notin KeysOf(Retrieved)
       /\ Given.docs.kind = "none" => "domain" \notin KeysOf(Retrieved)

\* C17: a question goes to the activity report only when the classifier
\* returns the label 'activity report request' in any letter case; any
\* failure of the classifier (an error of the call, an output that cannot be
\* parsed) and any other label send it to the regular question.
C17_Routing ==
    agent.given # <<>>
    => IF Given.intent.kind = "ok"
          /\ LowerIntent(Given.intent.obj.intent) = "activity report request"
       THEN agent.route = "activity"
       ELSE agent.route = "regular"

\* C18: in any sequence of questions to one Agent, every regular question is
\* answered by a single retrieval with the user's literal question and no
\* metadata filter, also after an activity report.
C18_RegularUnfiltered ==
    (agent.route = "regular" /\ agent.res = "ok")
    => agent.retrievals = <<[question |-> agent.question, filter |-> NoFilter]>>

\* C19: the filter of an activity report always contains type = history;
\* with a period it also contains last_accessed_at >= the first second of
\* the start day and <= the last second of the end day; with a period and no
\* document name it is exactly $and of these three in this order, and with
\* neither it is the bare type condition.
C19_ActivityFilter ==
    (agent.route = "activity" /\ agent.res = "ok")
    => LET typ == Cond("type", "$eq", Str("history"))
           from == Cond("last_accessed_at", "$gte",
                        Num(Given.period.obj.start_date * 86400))
           upto == Cond("last_accessed_at", "$lte",
                        Num((Given.period.obj.end_date + 1) * 86400 - 1))
           names == Given.docs.obj.document_names
       IN  /\ Len(agent.retrievals) = 1
           /\ typ \in CondsOf(Retrieved)
           /\ Given.period.kind = "ok" => {from, upto} \subseteq CondsOf(Retrieved)
           /\ (Given.period.kind = "ok" /\ names = <<>>)
              => Retrieved = Comb("$and", <<typ, from, upto>>)
           /\ (Given.period.kind = "none" /\ names = <<>>) => Retrieved = typ
C19_Witness ==
    /\ agent.route = "activity" /\ agent.res = "ok"
    /\ Given.period.kind = "ok" /\ Given.docs.obj.document_names = <<>>
    /\ Retrieved.node = "$and" /\ Len(Retrieved.children) = 3

\* f is what n conditions on one level make: the bare condition for one, a
\* single combinator with exactly the n children for more
OneLevel(f, name, n) ==
    IF n = 1 THEN f.node = "cond"
    ELSE f.node = name /\ Len(f.children) = n
AllConds(children) == \A i \in 1..Len(children) : children[i].node = "cond"

\* C20: a filter built from n conditions on one level is the bare condition
\* when n = 1 and a single $and (or $or) with exactly n children when
\* n >= 2, never nested, by Agent._activity_report, Agent._build_filter and
\* similarity.split_filter.
C20_OneLevelFilters ==
    /\ (agent.route = "build" /\ Len(agent.args) >= 1)
       => /\ OneLevel(agent.built, "$and", Len(agent.args))
          /\ AllConds(agent.built.children)
          /\ CondsOf(agent.built) = {agent.args[i] : i \in 1..Len(agent.args)}
    /\ (agent.route = "split" /\ agent.res = "ok" /\ Len(agent.args) >= 1)
       => /\ OneLevel(agent.built, "$and", Len(agent.args))
          /\ AllConds(agent.built.children)
    /\ (agent.route = "activity" /\ agent.res = "ok")
       => LET names == Given.docs.obj.document_names
              n == 1 + (IF Given.period.kind = "ok" THEN 2 ELSE 0)
                     + (IF names = <<>> THEN 0 ELSE 1)
              f == Retrieved
              last == f.children[Len(f.children)]
          IN  /\ OneLevel(f, "$and", n)
              /\ \A i \in 1..Len(f.children) :
                    \/ f.children[i].node = "cond"
                    \/ i = Len(f.children) /\ Len(names) >= 2
              /\ (n >= 2 /\ Len(names) >= 1)
                 => /\ OneLevel(last, "$or", Len(names))
                    /\ AllConds(last.children)
C20_Witness ==
    /\ agent.route = "activity" /\ agent.res = "ok"
    /\ Len(Given.docs.obj.document_names) = 3
    /\ Retrieved.node = "$and" /\ Len(Retrieved.children) = 4
    /\ Retrieved.children[4].node = "$or"

\* the records of the store a filter is put to
StoreRecords ==
    [type : {"history", "notes"}, domain : {"work", "home", "none"},
     referer : {"work", "journal"}, last_accessed_at : {10 * 86400, 13 * 86400}]
\* the store's reading of a filter: a condition compares one key of the
\* record, $and wants every child, $or wants one
RECURSIVE Matches(_, _)
Matches(f, rec) ==
    CASE f.node = "none" -> TRUE
      [] f.node = "$and" -> \A i \in 1..Len(f.children) : Matches(f.children[i], rec)
      [] f.node = "$or" -> \E i \in 1..Len(f.children) : Matches(f.children[i], rec)
      [] OTHER ->
         IF f.key = "last_accessed_at"
         THEN CASE f.op = "$gte" -> rec.last_accessed_at >= f.val.n
                [] f.op = "$lte" -> rec.last_accessed_at <= f.val.n
                [] OTHER -> rec.last_accessed_at = f.val.n
         ELSE rec[f.key] = f.val.s
\* the conjunct the document names add, and the conjuncts before it
DocConjunct == Retrieved.children[Len(Retrieved.children)]
OtherConjuncts == SubSeq(Retrieved.children, 1, Len(Retrieved.children) - 1)
NamedIn(x, names) == \E i \in 1..Len(names) : names[i] = x

\* C21 (as amended): when the document-name extraction returns k >= 1
\* names, the activity-report filter gains one conjunct that selects the
\* records whose domain equals one of the names (a bare condition for
\* k = 1, an $or of k conditions for k > 1), combined by AND with the other
\* conditions.
C21_DomainConjunct ==
    (/\ agent.route = "activity" /\ agent.res = "ok"
     /\ Len(Given.docs.obj.document_names) >= 1)
    => LET names == Given.docs.obj.document_names
       IN  /\ Retrieved.node = "$and"
           /\ Len(Retrieved.children) = (IF Given.period.kind = "ok" THEN 4 ELSE 2)
           /\ OneLevel(DocConjunct, "$or", Len(names))
           /\ AllConds(DocConjunct.children)
           /\ \A rec \in StoreRecords :
                 /\ Matches(DocConjunct, rec) <=> NamedIn(rec.domain, names)
                 /\ Matches(Retrieved, rec)
                    <=> /\ NamedIn(rec.domain, names)
                        /\ \A i \in 1..Len(OtherConjuncts) :
                              Matches(OtherConjuncts[i], rec)
\* C21 (as stated): the conjunct selects the records whose referer or domain
\* equals one of the names.
C21_RefererOrDomainConjunct ==
    (/\ agent.route = "activity" /\ agent.res = "ok"
     /\ Len(Given.docs.obj.document_names) >= 1)
    => LET names == Given.docs.obj.document_names
       IN  /\ Retrieved.node = "$and"
           /\ OneLevel(DocConjunct, "$or", Len(names))
           /\ \A rec \in StoreRecords :
                 Matches(DocConjunct, rec)
                 <=> (NamedIn(rec.domain, names) \/ NamedIn(rec.referer, names))
C21_Witness ==
    /\ agent.route = "activity" /\ agent.res = "ok"
    /\ Given.docs.obj.document_names = <<"work", "home">>
    /\ Given.period.kind = "ok"
    /\ DocConjunct.node = "$or" /\ Len(DocConjunct.children) = 2

-----------------------------------------------------------------------------
(* The connection to the vector store *)

\* C22: get_vectorstore tries to connect at most 12 times with a fixed delay
\* between the attempts, every connection failure is retried, it returns the
\* store after the first successful attempt, and it ends the process with a
\* non-zero status exactly when all the attempts have failed.
C22_ConnectionRetried ==
    /\ vs.tries <= 12
    /\ vs.slept = 5 * (IF vs.pc = "sleep" THEN vs.failures - 1 ELSE vs.failures)
    /\ vs.pc = "returned" => vs.tries = vs.failures + 1
    /\ (vs.status # 0) <=> (vs.tries = 12 /\ vs.failures = 12 /\ vs.pc = "exit")
    /\ (vs.failures > 0 /\ vs.pc \notin {"sleep", "loop"})
       => \/ vs.pc = "returned"
          \/ vs.tries = 12

-----------------------------------------------------------------------------
(* The checksum store across the runs *)

InSeq(x, q) == \E i \in 1..Len(q) : q[i] = x

\* C23: the checksum store is write-through: after every has_file_changed
\* call that changes the mapping in memory the checksum file equals it, and
\* between the calls the file holds the fingerprint of every file handled so
\* far.
C23_WriteThrough ==
    [][/\ checksum_file' = checksums'
       /\ DOMAIN checksum_file \subseteq DOMAIN checksum_file'
       /\ \A n \in DOMAIN notes' :
             InSeq(n, NamesOf(log', "hash"))
             => /\ n \in DOMAIN checksum_file'
                /\ checksum_file'[n] = compute_checksum(notes'[n].lines)]_vars
\* a run has recorded the fingerprint of the note it has processed
C23_Witness ==
    \E n \in DOMAIN notes :
        /\ Called(log, "process_md_file", n)
        /\ InSeq(n, NamesOf(log, "store"))
        /\ since # "dirty" \/ pc = "md"
        /\ ArtifactOf(n) \in DOMAIN text
        /\ checksum_file[n] = compute_checksum(notes[n].lines)

\* C24, as stated: when the checksum store is loaded, every entry whose file
\* no longer exists is removed from the mapping and the pruned mapping is
\* persisted at once, so after loading the store has no entry for a missing
\* file.
C24_LoadPrunes ==
    [][StartMdScan
       => /\ DOMAIN checksums' \subseteq DOMAIN notes'
          /\ checksum_file' = checksums']_vars

\* C25, as stated: the modification times are compared before the
\* fingerprint is computed, so that in a run over an unchanged, already
\* processed note process_md_file returns without computing the note's
\* fingerprint and without touching the checksum store or any file; the
\* fingerprint is computed only when the modification times of the note and
\* of its artifact differ.
C25_GateBeforeFingerprint ==
    [][\A n \in DOMAIN notes :
          (pc = "md" /\ Called(log', "process_md_file", n))
          => /\ InSeq(n, NamesOf(log', "hash"))
                => ~is_same_time(notes[n].mtime, text, ArtifactOf(n))
             /\ (since # "dirty" /\ ArtifactOf(n) \in DOMAIN text)
                => /\ NamesOf(log', "hash") = <<>>
                   /\ ret' = "False"
                   /\ checksums' = checksums /\ checksum_file' = checksum_file
                   /\ markdown' = markdown /\ text' = text]_vars

-----------------------------------------------------------------------------
(* The split of a note in its days *)

\* the note holds no heading that DATE2_REGEXP or DATE3_REGEXP matches
NoDateHeading(n) ==
    DateHeadings(notes[n].lines, 1) = {} /\ DateHeadings(notes[n].lines, 2) = {}
\* the call of process_md_file the step has made went on to split_md_file
SplitCalled(l, n) ==
    /\ Called(l, "process_md_file", n)
    /\ InSeq(n, NamesOf(l, "store"))
\* what split_md_file returns for the note n
FilesOf(n) == split_md_file([markdown |-> markdown, log |-> <<>>], n).files

\* C26, as stated: split_md_file returns exactly the single original path
\* whenever no split occurs, that is for every note without a date heading
\* to split on, whether or not its file name is history-style and whether or
\* not its body holds the '## History' marker; the note is then processed
\* as it is.
C26_UnsplitNoteReturned ==
    [][\A n \in DOMAIN notes :
          (SplitCalled(log', n) /\ NoDateHeading(n))
          => /\ FilesOf(n) = <<[dir |-> "Src", name |-> n]>>
             /\ ArtifactOf(n) \in DOMAIN text']_vars

\* the level split_md_file splits the note n at, 0 when it does not
SplitLevel(n) ==
    IF is_history_filename(n) THEN 1
    ELSE IF HasHistoryMarker(notes[n].lines) THEN 2 ELSE 0
\* the lines of the date headings of n that get_date parses, in order
ParsedHeadings(n) ==
    Ascending({h \in DateHeadings(notes[n].lines, SplitLevel(n)) :
                  get_date(notes[n].lines[h].val[1]).ok})
\* the note n is split
IsSplit(n) == SplitLevel(n) > 0 /\ DateHeadings(notes[n].lines, SplitLevel(n)) # {}

\* C27, as stated: a successful split returns the base document first and
\* then one fragment for each date heading that is parsed, in the order of
\* the document: k such headings give k distinct fragment paths, each file
\* holding the text of its own heading, so that no two headings of a note
\* share or overwrite a fragment.
C27_FragmentPerHeading ==
    [][\A n \in DOMAIN notes :
          (SplitCalled(log', n) /\ IsSplit(n))
          => LET files == FilesOf(n)
                 heads == ParsedHeadings(n)
             IN  /\ Len(files) = 1 + Len(heads)
                 /\ files[1] = [dir |-> "Markdown", name |-> DropLast(n, 3) \o MdExt]
                 /\ \A i, j \in 2..Len(files) : files[i] = files[j] => i = j
                 /\ \A i \in 1..Len(heads) :
                       /\ files[i + 1].name \in DOMAIN markdown'
                       /\ InSeq(Heading("#", notes[n].lines[heads[i]].val[1]),
                                markdown'[files[i + 1].name].lines)]_vars

\* twelve hours after the start of the day a heading names
NoonOf(title) ==
    CASE title = "05 January 2024" -> -9
      [] title = "06 Jan 2024" -> -7
      [] title = "05 February 2024" -> -5
      [] OTHER -> 0
\* the title of the heading a fragment file opens with
TitleOf(file) == file.lines[5].val[1]

\* C28: the modification time of every history fragment, and therefore the
\* last_accessed_at of the artifact made from it, is noon of the date parsed
\* from its heading, while the base document keeps the modification time of
\* the original note.
C28_FragmentTimes ==
    [][\A n \in DOMAIN notes :
          (SplitCalled(log', n) /\ IsSplit(n))
          => LET files == FilesOf(n)
             IN  /\ markdown'[files[1].name].mtime = notes'[n].mtime
                 /\ \A i \in 2..Len(files) :
                       LET part == markdown'[files[i].name]
                           oname == get_output_file_path(DropLast(files[i].name, 3))
                       IN  /\ part.mtime = NoonOf(TitleOf(part))
                           /\ oname \in DOMAIN text'
                           /\ text'[oname].metadata["last_accessed_at"]
                                 = isoformat(NoonOf(TitleOf(part)))]_vars
\* a journal has been split and the artifact of one of its days written
C28_Witness ==
    /\ SplitCalled(log, Journal) /\ IsSplit(Journal)
    /\ Len(FilesOf(Journal)) >= 2
    /\ \E f \in DOMAIN markdown :
          /\ f # Journal
          /\ markdown[f].mtime < 0
          /\ InSeq(get_output_file_path(DropLast(f, 3)), NamesOf(log, "write"))

\* C29, as stated: the artifact of every history fragment carries a
\* created_at equal to the date parsed from the date heading of the
\* fragment.
C29_FragmentCreatedAt ==
    [][\A n \in DOMAIN notes :
          (SplitCalled(log', n) /\ IsSplit(n))
          => LET files == FilesOf(n)
             IN  \A i \in 2..Len(files) :
                    LET part == markdown'[files[i].name]
                        oname == get_output_file_path(DropLast(files[i].name, 3))
                    IN  /\ oname \in DOMAIN text'
                        /\ "created_at" \in DOMAIN text'[oname].metadata
                        /\ text'[oname].metadata["created_at"]
                              = isoformat(get_date(TitleOf(part)).at)]_vars

\* the header fields of the note n, as get_metadata reads them
HeaderOf(n) == get_metadata(notes[n].lines).metadata
\* the artifact carries the fields of header
Carries(artifact, header) ==
    \A k \in DOMAIN header : Get(artifact.metadata, k, <<>>) = header[k]

\* C30, as stated: for every processed note the artifact of the first output
\* document has type = notes and carries the header fields of the note with
\* lower-cased keys, and the artifact of every fragment of a split has
\* type = history, inherits the header fields of the base document and has
\* referer = the basename of the note with the digits stripped.
C30_ArtifactMetadata ==
    \A n \in DOMAIN notes :
        (SplitCalled(log, n) /\ ret = "True")
        => /\ ArtifactOf(n) \in DOMAIN text
              => /\ text[ArtifactOf(n)].metadata["type"] = <<"notes">>
                 /\ Carries(text[ArtifactOf(n)], HeaderOf(n))
                 /\ \A k \in DOMAIN HeaderOf(n) : k = Lower(k)
           /\ IsSplit(n)
              => \A i \in 2..Len(FilesOf(n)) :
                    LET oname == get_output_file_path(DropLast(FilesOf(n)[i].name, 3))
                    IN  oname \in DOMAIN text
                        => /\ text[oname].metadata["type"] = <<"history">>
                           /\ Carries(text[oname], Drop(HeaderOf(n), "referer"))
                           /\ text[oname].metadata["referer"]
                                 = clean_referer(DropLast(n, 3))

-----------------------------------------------------------------------------
(* The extractors of a line *)

\* the extractor that makes a fetch of the kind dir
ExtractorOf(dir) ==
    CASE dir \in {"transcript", "whisper"} -> "youtube"
      [] dir = "audio" -> "audio"
      [] OTHER -> "url"
\* the extractors that have gone to the network for the line, by the log l
ActedOn(l, line) ==
    {ExtractorOf(l[i].dir) :
        i \in {j \in 1..Len(l) :
                  /\ l[j].op = "fetch"
                  /\ l[j].name \in {get_output_file_path(VideoId(line)),
                                    get_output_file_path(Md5Hex(UrlOf(line)))}}}

\* C31, as stated: for every line of the body at most one extractor acts on
\* the line, the first of YouTube, audio and generic URL whose trigger
\* matches; a line that matches the YouTube trigger is never handled by the
\* audio or the generic URL extractor.
C31_OneExtractorPerLine ==
    [][\A n \in DOMAIN notes :
          Called(log', "process_md_file", n)
          => \A i \in RefLines(notes[n].lines) :
                LET line == notes[n].lines[i]
                IN  /\ Cardinality(ActedOn(log', line)) <= 1
                    /\ line.key = "yt" => ActedOn(log', line) \subseteq {"youtube"}
                    /\ line.key = "mp3" => ActedOn(log', line) \subseteq {"audio"}]_vars

-----------------------------------------------------------------------------
(* The records of the index *)

\* the keys process_chunk sets itself
ChunkKeys == {"part", "source", "main_source"}
\* the i-th record process_file has just added carries, under the keys K,
\* what the artifact fname holds (dates as timestamps), and its own fields
RecordCarries(fname, i, K) ==
    LET id == NamesOf(log', "add")[i]
        rec == index'[id].metadata
        art == datetime_decoder(text'[fname].metadata)
        basename == DropLast(fname, 5)
    IN  /\ \A k \in K \cap DOMAIN art : k \in DOMAIN rec /\ rec[k] = art[k]
        /\ rec["part"] = i
        /\ rec["source"] = ChunkPath(id)
        /\ rec["main_source"] = TextPath(fname)
        /\ "referer" \in DOMAIN rec
        /\ rec["referer"] = Get(art, "referer", basename)

\* C32 (as amended): every IndexRecord carries the metadata of the artifact
\* it was cut from (date values as timestamps) but for the keys part, source
\* and main_source, which are its 1-based sequence number, the path of its
\* chunk file and the path of its artifact whatever the artifact holds under
\* them, and it always has a referer: the inherited one, or the basename of
\* the artifact when the artifact has none.
C32_RecordMetadata ==
    [][\A fname \in DOMAIN text' :
          Called(log', "process_file", fname)
          => \A i \in 1..Len(NamesOf(log', "add")) :
                RecordCarries(fname, i, DOMAIN text'[fname].metadata \ ChunkKeys)]_vars
\* C32 (as stated): every IndexRecord carries all the metadata of the
\* artifact it was cut from, plus part, source and main_source.
C32_AllMetadataCarried ==
    [][\A fname \in DOMAIN text' :
          Called(log', "process_file", fname)
          => \A i \in 1..Len(NamesOf(log', "add")) :
                RecordCarries(fname, i, DOMAIN text'[fname].metadata)]_vars
\* a second chunk has been added for an artifact without referer
C32_Witness ==
    \E fname \in DOMAIN text :
        /\ Called(log, "process_file", fname)
        /\ Len(AddedIds) >= 2
        /\ "referer" \notin DOMAIN text[fname].metadata
        /\ index[AddedIds[2]].metadata["part"] = 2
        /\ index[AddedIds[2]].metadata["referer"] = DropLast(fname, 5)
        /\ index[AddedIds[2]].metadata["type"] = text[fname].metadata["type"]

-----------------------------------------------------------------------------
(* The functions of lib.py *)

StopWordsIn(t) ==
    {i \in 1..Len(t) :
        /\ t[i] \in StopWords
        /\ i > 1 => IsSpace(t[i - 1])
        /\ i < Len(t) => IsSpace(t[i + 1])}
\* C34: cleanup_text removes the stop words of the supported languages
\* (English 'the', French 'les') and every '#', and returns a text that has
\* nothing to clean unchanged.
C34_CleanupText ==
    lib.op = "cleanup_text"
    => /\ StopWordsIn(lib.res) = {}
       /\ \A i \in 1..Len(lib.res) : lib.res[i] # "#"
       /\ (\A i \in 1..Len(lib.text) : lib.text[i] = "w") => lib.res = lib.text

-----------------------------------------------------------------------------
(* Runs that are cut short *)

\* C35, as stated: when a run has stopped after has_file_changed stored the
\* new fingerprint of a note and before its artifacts were written, the next
\* call of process_md_file on the unchanged note does not skip it: it
\* generates the artifacts again.
C35_CrashNotSkipped ==
    [][\A n \in stopped :
          (/\ pc = "md"
           /\ <<pc, queue, todo>> # <<pc', queue', todo'>>
           /\ Called(log', "process_md_file", n))
          => ret' # "False"]_vars

\* C36, as stated: an artifact that the freshness gate of
\* validate_and_extract_url takes as up to date (its first chunk file has the
\* artifact's modification time) has all its chunks in the index, whatever
\* calls of process_file came before, those with a failing upsert included.
C36_FreshMeansIndexed ==
    \A fname \in DOMAIN text :
        is_same_time(text[fname].mtime, chunks, ChunkId(DropLast(fname, 5), 1))
        => \A i \in 1..Len(split_text(text[fname].text)) :
              ChunkId(DropLast(fname, 5), i) \in DOMAIN index

-----------------------------------------------------------------------------
(* What a removed note takes with it *)

\* the ids of the records cut from the artifacts fetched for the references
\* of note n
FetchedFor(n) ==
    {id \in DOMAIN index :
        \E i \in RefLines(notes[n].lines) :
            index[id].metadata["main_source"] = TextPath(PathOf(notes[n].lines[i]))}
\* C37, as stated: the cascading delete that process_file runs for a removed
\* note A leaves in place the records and the chunk files of every fetched
\* artifact that a note B, which still exists, refers to by the same URL.
C37_SharedArtifactKept ==
    [][\A A \in NoteFiles \ DOMAIN notes :
          (/\ gone[A] # "live"
           /\ Called(log', "process_file", ArtifactOf(A))
           /\ ArtifactOf(A) \notin DOMAIN text)
          => \A B \in DOMAIN notes :
                /\ FetchedFor(B) \subseteq DOMAIN index'
                /\ FetchedFor(B) \cap DOMAIN chunks \subseteq DOMAIN chunks']_vars

\* C38, as stated: the cleanup process_md_file does for a deleted note X
\* removes files derived from X only: the artifact of every note that exists,
\* the fragment files split from it and their artifacts stay, also when the
\* basename of that note begins with the basename of X.
C38_OnlyOwnFilesRemoved ==
    [][\A X \in NoteFiles \ DOMAIN notes :
          Called(log', "process_md_file", X)
          => \A n \in DOMAIN notes :
                /\ ArtifactOf(n) \in DOMAIN text => ArtifactOf(n) \in DOMAIN text'
                /\ \A i \in 1..Len(FilesOf(n)) :
                      LET f == FilesOf(n)[i]
                          o == get_output_file_path(DropLast(f.name, 3))
                      IN  f.dir = "Markdown"
                          => /\ f.name \in DOMAIN markdown => f.name \in DOMAIN markdown'
                             /\ o \in DOMAIN text => o \in DOMAIN text']_vars

\* the names of the fragment files split_md_file cuts from the current text
\* of note n
CurrentFragments(n) == {FilesOf(n)[i].name : i \in 2..Len(FilesOf(n))}
\* C39, as stated: once a note with date headings is processed again, the
\* fragment files and the fragment artifacts that exist for it are those of
\* the date headings of its current text; those of a heading that was
\* removed are gone.
C39_OnlyCurrentFragments ==
    [][\A n \in DOMAIN notes :
          (Called(log', "process_md_file", n) /\ ret' = "True" /\ IsSplit(n))
          => /\ \A h \in DOMAIN markdown' :
                   (StartsWith(h, BaseOf(n)) /\ h # n) => h \in CurrentFragments(n)
             /\ \A f \in DOMAIN text' :
                   (StartsWith(f, BaseOf(n)) /\ f # ArtifactOf(n))
                   => \E h \in CurrentFragments(n) :
                         f = get_output_file_path(DropLast(h, 3))]_vars

====
